---- MODULE Spec2Model ----
(***************************************************************************)
(* A model of the YouTube business-intelligence scraper:                   *)
(*   main.py          run_full_bi_analysis, the orchestrator               *)
(*   scraping_1_2.py  video listing and the per-video metric primitives    *)
(*   scraping_1_4.py  the playlist analyzer                                *)
(*   scraping_1_5.py  the competitor finder / ranker                       *)
(* Python floats are modelled as exact rationals [n, d] in lowest terms.   *)
(***************************************************************************)
EXTENDS Integers, Sequences, FiniteSets, TLC

VARIABLES
    fn,      \* pure-function frame: the function that has been applied, or "none"
    args,    \* pure-function frame: its arguments
    ret,     \* pure-function frame: its return value
    pc,      \* run_full_bi_analysis: the step it is at
    run,     \* run_full_bi_analysis: max_competitors, target_channel_data,
             \*   channels_to_analyze, i, deep_dive_data
    full_analysis_report,   \* target_channel_id, competitor_overview, channel_deep_dives
    fsc,     \* find_similar_channels: search_terms, term, competitors, unique_channel_ids,
             \*   raised (the exception its search request raised, if one did)
    ccd,     \* collect_competitor_data: competitors, idx, competitor_profiles,
             \*   skipped (the positions whose comp_data was None or whose lookup raised)
    dive,    \* the deep dive of one channel: page, n_videos, batch, enhanced,
             \*   all_playlists, playlist, pl_page
    result,  \* what run_full_bi_analysis returned: "running", "None" or "report"
    files,   \* what was written: report_folder, json, csv
    last_failed,  \* the API request that has just failed, if the last one did
    retried,   \* whether some API request was issued twice
    dives,     \* the channel ids deep-dived so far, in order
    caught,    \* the channel ids whose deep dive raised an exception
    session_state,   \* the dashboard session's st.session_state
    rendered   \* the dashboard page run last: name, shown, read

pureVars == <<fn, args, ret>>
dashVars == <<session_state, rendered>>
orchVars == <<pc, run, full_analysis_report, fsc, ccd, dive, result, files,
              last_failed, retried, dives, caught>>
vars == <<fn, args, ret, pc, run, full_analysis_report, fsc, ccd, dive, result, files,
          last_failed, retried, dives, caught, session_state, rendered>>

\* the orchestrator is not running while a pure function is examined
OrchIdle ==
    /\ pc = "idle"
    /\ run = <<>>
    /\ full_analysis_report = <<>>
    /\ fsc = <<>>
    /\ ccd = <<>>
    /\ dive = <<>>
    /\ result = "running"
    /\ files = <<>>
    /\ last_failed = <<>>
    /\ retried = FALSE
    /\ dives = <<>>
    /\ caught = {}

PureIdle ==
    /\ fn = "none"
    /\ args = <<>>
    /\ ret = <<>>

\* no dashboard session is open
DashIdle ==
    /\ session_state = <<>>
    /\ rendered = <<>>

----------------------------------------------------------------------------
(* Exact rational arithmetic standing for Python's float arithmetic.       *)

RECURSIVE GCD(_, _)
GCD(a, b) == IF b = 0 THEN a ELSE GCD(b, a % b)

Abs(x) == IF x < 0 THEN -x ELSE x

Rat(n, d) ==
    LET g == GCD(Abs(n), Abs(d))
        s == IF d < 0 THEN -1 ELSE 1
    IN  [n |-> s * (n \div g), d |-> s * (d \div g)]

RInt(k) == [n |-> k, d |-> 1]
RAdd(a, b) == Rat(a.n * b.d + b.n * a.d, a.d * b.d)
RSub(a, b) == Rat(a.n * b.d - b.n * a.d, a.d * b.d)
RMul(a, b) ==
    LET g1 == GCD(Abs(a.n), b.d)
        g2 == GCD(Abs(b.n), a.d)
    IN  Rat((a.n \div g1) * (b.n \div g2), (a.d \div g2) * (b.d \div g1))
RDiv(a, b) == RMul(a, [n |-> b.d, d |-> b.n])
RLe(a, b) == a.n * b.d <= b.n * a.d
RLt(a, b) == a.n * b.d < b.n * a.d
REq(a, b) == a.n * b.d = b.n * a.d
RMin(a, b) == IF RLe(a, b) THEN a ELSE b
RMax(a, b) == IF RLe(a, b) THEN b ELSE a

RECURSIVE Pow10(_)
Pow10(k) == IF k = 0 THEN 1 ELSE 10 * Pow10(k - 1)

\* round(x, k) for x >= 0: to k decimals, ties to even.
RRound(x, k) ==
    LET whole == x.n \div x.d
        num   == (x.n % x.d) * Pow10(k)
        q     == num \div x.d
        r     == num % x.d
        up    == (2 * r > x.d) \/ (2 * r = x.d /\ q % 2 = 1)
    IN  Rat(whole * Pow10(k) + (IF up THEN q + 1 ELSE q), Pow10(k))

Min(a, b) == IF a <= b THEN a ELSE b
Max(a, b) == IF a >= b THEN a ELSE b

RECURSIVE SeqSum(_)
SeqSum(s) == IF s = <<>> THEN 0 ELSE Head(s) + SeqSum(Tail(s))

----------------------------------------------------------------------------
(* Text: a sequence of whitespace-separated tokens.  str.lower() and the   *)
(* regular expression \b[a-zA-Z]{k,}\b act token by token.                 *)

Tokens == {"ai", "fox", "Fox", "news", "News", "tech", "the", "daily", "top10"}

\* str.lower()
Lower(w) ==
    CASE w = "Fox"  -> "fox"
      [] w = "News" -> "news"
      [] OTHER      -> w

\* a token made of letters only; in "top10" no run of letters ends at a \b
IsAlpha(w) == w # "top10"

\* re.findall(r'\b[a-zA-Z]{k,}\b', text.lower()), in order of occurrence
RECURSIVE FindAll(_, _)
FindAll(text, k) ==
    IF text = <<>> THEN <<>>
    ELSE LET w == Lower(Head(text))
         IN  IF IsAlpha(w) /\ Len(w) >= k
             THEN <<w>> \o FindAll(Tail(text), k)
             ELSE FindAll(Tail(text), k)

SeqToSet(s) == {s[i] : i \in 1..Len(s)}

\* set(re.findall(...))
WordSet(text, k) == SeqToSet(FindAll(text, k))

----------------------------------------------------------------------------
(* scraping_1_5.py: competitor relevance and ranking.                      *)

\* |A & B| / |A | B| of two non-empty word sets
Similarity(a, b) == Rat(Cardinality(a \cap b), Cardinality(a \cup b))

calculate_competitor_relevance_score_noguard(competitor, target_channel) ==
    LET tt == WordSet(target_channel.channel_title, 3)
        ct == WordSet(competitor.channel_title, 3)
        td == WordSet(target_channel.description, 4)
        cd == WordSet(competitor.description, 4)
        s1 == IF tt # {} /\ ct # {}
              THEN RMul(Similarity(tt, ct), RInt(50)) ELSE RInt(50)
        s2 == IF td # {} /\ cd # {}
              THEN RAdd(s1, RMul(Similarity(td, cd), RInt(30))) ELSE RAdd(s1, RInt(30))
    IN  RAdd(s2, RInt(20))

calculate_competitor_relevance_score(competitor, target_channel) ==
    LET target_title_words == WordSet(target_channel.channel_title, 3)
        comp_title_words   == WordSet(competitor.channel_title, 3)
        target_desc_words  == WordSet(target_channel.description, 4)
        comp_desc_words    == WordSet(competitor.description, 4)
        score0 == RInt(0)
        score1 == IF target_title_words # {} /\ comp_title_words # {}
                  THEN RAdd(score0, RMul(Similarity(target_title_words, comp_title_words), RInt(50)))
                  ELSE score0
        score2 == IF target_desc_words # {} /\ comp_desc_words # {}
                  THEN RAdd(score1, RMul(Similarity(target_desc_words, comp_desc_words), RInt(30)))
                  ELSE score1
    IN  RAdd(score2, RInt(20))

\* competitor['relevance_score'] = score, for every competitor of the list
ScoreAll(competitors, target_channel_data) ==
    [i \in 1..Len(competitors) |->
        [channel_id      |-> competitors[i].channel_id,
         channel_title   |-> competitors[i].channel_title,
         description     |-> competitors[i].description,
         relevance_score |->
             calculate_competitor_relevance_score(competitors[i], target_channel_data)]]

\* list.sort(key=relevance_score, reverse=True): stable, equal keys keep their order
RECURSIVE InsertByScoreDesc(_, _)
InsertByScoreDesc(sorted, x) ==
    IF sorted = <<>> THEN <<x>>
    ELSE IF RLt(Head(sorted).relevance_score, x.relevance_score)
         THEN <<x>> \o sorted
         ELSE <<Head(sorted)>> \o InsertByScoreDesc(Tail(sorted), x)

RECURSIVE SortByScoreDescFrom(_, _)
SortByScoreDescFrom(done, rest) ==
    IF rest = <<>> THEN done
    ELSE SortByScoreDescFrom(InsertByScoreDesc(done, Head(rest)), Tail(rest))

SortByScoreUnsorted(s) == s

SortByScoreDesc(s) == SortByScoreDescFrom(<<>>, s)

\* s[:k]
SlicePrefix(s, k) ==
    IF k >= 0 THEN SubSeq(s, 1, Min(k, Len(s)))
    ELSE SubSeq(s, 1, Max(Len(s) + k, 0))

\* the ranking without the slice
filter_and_rank_competitors_unsliced(competitors, target_channel_data, max_competitors) ==
    SortByScoreDesc(ScoreAll(competitors, target_channel_data))

filter_and_rank_competitors(competitors, target_channel_data, max_competitors) ==
    SlicePrefix(SortByScoreDesc(ScoreAll(competitors, target_channel_data)), max_competitors)

----------------------------------------------------------------------------
(* Inputs of the ranking specification.                                    *)

MaxCandidates == 3
MaxCompetitors == 3

TargetFoxNews ==
    [channel_id |-> "UCtarget", channel_title |-> <<"Fox", "News">>,
     description |-> <<"daily", "news", "the", "tech">>]
TargetAi ==
    [channel_id |-> "UCtarget", channel_title |-> <<"ai">>, description |-> <<>>]
TargetTechDaily ==
    [channel_id |-> "UCtarget", channel_title |-> <<"tech", "daily">>,
     description |-> <<"tech", "news", "tech">>]

TargetProfiles == {TargetFoxNews, TargetAi, TargetTechDaily}

CandidateTexts ==
    { [channel_title |-> <<"fox", "news">>,   description |-> <<"daily", "news">>],
      [channel_title |-> <<"News", "tech">>,  description |-> <<"fox">>],
      [channel_title |-> <<"top10">>,         description |-> <<"tech">>],
      [channel_title |-> <<"daily", "tech">>, description |-> <<"tech", "news">>] }

\* candidate lists: the i-th candidate has channel id i
CandidateLists ==
    UNION { { [i \in 1..n |->
                [channel_id |-> i, channel_title |-> f[i].channel_title,
                 description |-> f[i].description]] :
              f \in [1..n -> CandidateTexts] } : n \in 0..MaxCandidates }

RankInit ==
    /\ fn = "none"
    /\ args \in [competitors : CandidateLists,
                 target_channel_data : TargetProfiles,
                 max_competitors : (-1)..MaxCompetitors]
    /\ ret = <<>>
    /\ OrchIdle
    /\ DashIdle

ApplyFilterAndRank ==
    /\ fn = "none"
    /\ fn' = "filter_and_rank_competitors"
    /\ ret' = [filtered |-> filter_and_rank_competitors(
                               args.competitors, args.target_channel_data,
                               args.max_competitors),
               competitors |-> ScoreAll(args.competitors, args.target_channel_data)]
    /\ UNCHANGED <<args, orchVars, dashVars>>

RankNext == ApplyFilterAndRank

SpecRank == RankInit /\ [][RankNext]_vars

----------------------------------------------------------------------------
(* C1: for max_competitors >= 0, filter_and_rank_competitors returns at    *)
(* most max_competitors candidates, each one a scored candidate of the     *)
(* input, in non-increasing order of relevance_score, and no candidate     *)
(* left out scores strictly higher than a candidate that is kept.          *)
C1_TopK ==
    (fn = "filter_and_rank_competitors" /\ args.max_competitors >= 0) =>
        LET kept == ret.filtered
            all  == ret.competitors
            keptIds == {kept[i].channel_id : i \in 1..Len(kept)}
        IN  /\ Len(kept) <= args.max_competitors
            /\ \A i \in 1..Len(kept) : \E j \in 1..Len(all) : kept[i] = all[j]
            /\ Cardinality(keptIds) = Len(kept)
            /\ \A i \in 1..(Len(kept) - 1) :
                   RLe(kept[i + 1].relevance_score, kept[i].relevance_score)
            /\ \A j \in 1..Len(all) : \A i \in 1..Len(kept) :
                   all[j].channel_id \notin keptIds =>
                       ~RLt(kept[i].relevance_score, all[j].relevance_score)

\* a shortlist that had to leave out a candidate scoring lower than a kept one
C1_Witness ==
    /\ fn = "filter_and_rank_competitors"
    /\ args.max_competitors = 2
    /\ Len(args.competitors) = 3
    /\ Len(ret.filtered) = 2
    /\ ret.filtered[1].channel_id = 3
    /\ RLt(ret.filtered[2].relevance_score, ret.filtered[1].relevance_score)
    /\ \E j \in 1..3 : RLt(ret.competitors[j].relevance_score,
                           ret.filtered[2].relevance_score)

(* C2: the relevance score is 20 + 50*J(title words) + 30*J(description    *)
(* words), J = |intersection| / |union| and 0 when either set is empty,    *)
(* and so lies between 20 and 100.                                         *)
C2_RelevanceScore ==
    fn = "filter_and_rank_competitors" =>
        \A i \in 1..Len(ret.competitors) :
            LET c  == ret.competitors[i]
                t  == args.target_channel_data
                tt == WordSet(t.channel_title, 3)
                ct == WordSet(c.channel_title, 3)
                td == WordSet(t.description, 4)
                cd == WordSet(c.description, 4)
                ut == IF tt = {} \/ ct = {} THEN 1 ELSE Cardinality(tt \cup ct)
                ud == IF td = {} \/ cd = {} THEN 1 ELSE Cardinality(td \cup cd)
                it == IF tt = {} \/ ct = {} THEN 0 ELSE Cardinality(tt \cap ct)
                id == IF td = {} \/ cd = {} THEN 0 ELSE Cardinality(td \cap cd)
                s  == c.relevance_score
            IN  \* s = 20 + 50*it/ut + 30*id/ud, cleared of denominators
                /\ s.n * ut * ud = s.d * (20 * ut * ud + 50 * it * ud + 30 * id * ut)
                /\ 20 * s.d <= s.n
                /\ s.n <= 100 * s.d

\* a candidate scored with an empty title word set and half the description words
\* shared (20 + 0 + 15), next to one that shares every word (100)
C2_Witness ==
    /\ fn = "filter_and_rank_competitors"
    /\ \E i \in 1..Len(ret.competitors) :
          /\ WordSet(ret.competitors[i].channel_title, 3) = {}
          /\ WordSet(args.target_channel_data.channel_title, 3) # {}
          /\ ret.competitors[i].relevance_score = [n |-> 35, d |-> 1]
    /\ \E i \in 1..Len(ret.competitors) :
          ret.competitors[i].relevance_score = [n |-> 100, d |-> 1]

----------------------------------------------------------------------------
(* scraping_1_2.py: the per-video metric primitives.                       *)

\* max(1, (now - published).days), on the age in whole days
calculate_days_since_upload(age_days) == Max(1, age_days)

base_cpm_rates(category_id) ==
    CASE category_id = "22" -> Rat(350, 100)
      [] category_id = "27" -> Rat(850, 100)
      [] category_id = "26" -> Rat(400, 100)
      [] category_id = "24" -> Rat(250, 100)
      [] category_id = "25" -> Rat(600, 100)
      [] category_id = "28" -> Rat(900, 100)
      [] category_id = "19" -> Rat(550, 100)
      [] category_id = "20" -> Rat(220, 100)
      [] category_id = "10" -> Rat(180, 100)
      [] category_id = "29" -> Rat(1200, 100)
      [] OTHER              -> Rat(300, 100)

country_multipliers(country) ==
    CASE country = "US" -> Rat(100, 100)
      [] country = "CA" -> Rat(90, 100)
      [] country = "GB" -> Rat(95, 100)
      [] country = "AU" -> Rat(90, 100)
      [] country = "DE" -> Rat(85, 100)
      [] OTHER          -> Rat(50, 100)

estimate_advanced_cpm(category_id, country, duration_seconds) ==
    LET base == base_cpm_rates(category_id)
        adj  == IF duration_seconds >= 480 THEN RMul(base, Rat(15, 10))
                ELSE IF duration_seconds <= 60 THEN RMul(base, Rat(15, 100))
                ELSE base
    IN  RRound(RMul(adj, country_multipliers(country)), 2)

calculate_advanced_performance_score_uncapped(views, likes, comments, engagement_rate, duration_seconds) ==
    LET view_score       == RMul(Rat(views, 50000), RInt(30))
        engagement_score == RMul(RMin(RMul(engagement_rate, RInt(25)), RInt(1)), RInt(30))
        social_score     == RMul(RMin(Rat(likes + comments, 1000), RInt(1)), RInt(20))
        velocity_score   ==
            RMul(RMin(RDiv(RDiv(RInt(views), RMax(Rat(duration_seconds, 60), RInt(1))),
                           RInt(1000)), RInt(1)), RInt(20))
    IN  RRound(RAdd(RAdd(view_score, engagement_score),
                    RAdd(social_score, velocity_score)), 2)

calculate_advanced_performance_score(views, likes, comments, engagement_rate, duration_seconds) ==
    LET view_score       == RMul(RMin(Rat(views, 50000), RInt(1)), RInt(30))
        engagement_score == RMul(RMin(RMul(engagement_rate, RInt(25)), RInt(1)), RInt(30))
        social_score     == RMul(RMin(Rat(likes + comments, 1000), RInt(1)), RInt(20))
        velocity_score   ==
            RMul(RMin(RDiv(RDiv(RInt(views), RMax(Rat(duration_seconds, 60), RInt(1))),
                           RInt(1000)), RInt(1)), RInt(20))
    IN  RRound(RAdd(RAdd(view_score, engagement_score),
                    RAdd(social_score, velocity_score)), 2)

calculate_content_efficiency_score(views, duration_minutes, likes, comments) ==
    IF RLe(duration_minutes, Rat(1, 10)) THEN RInt(0)
    ELSE LET views_per_min      == RDiv(RInt(views), duration_minutes)
             engagement_per_min == RDiv(RInt(likes + comments), duration_minutes)
         IN  RRound(RMin(RAdd(RDiv(views_per_min, RInt(1000)),
                              RDiv(engagement_per_min, RInt(10))), RInt(100)), 2)

calculate_engagement_quality_score(likes, comments, views) ==
    IF views = 0 THEN RInt(0)
    ELSE LET weighted_engagement == Rat((comments * 3) + (likes * 1), views)
         IN  RRound(RMin(RMul(weighted_engagement, RInt(500)), RInt(100)), 2)

calculate_monetization_potential(views, engagement_rate, duration_seconds, estimated_cpm) ==
    LET revenue           == RMul(Rat(views, 1000), estimated_cpm)
        duration_factor   == IF duration_seconds >= 480 THEN Rat(15, 10) ELSE RInt(1)
        engagement_factor == RMin(RMul(engagement_rate, RInt(50)), RInt(2))
    IN  RRound(RMin(RDiv(RMul(RMul(revenue, duration_factor), engagement_factor),
                         RInt(10)), RInt(100)), 2)

\* item: [viewCount, likeCount, commentCount, categoryId, age_days]
calculate_complete_bi_metrics(item, duration_seconds, country) ==
    LET views    == item.viewCount
        likes    == item.likeCount
        comments == item.commentCount
        safe_views        == Max(views, 1)
        duration_minutes  == RMax(Rat(duration_seconds, 60), Rat(1, 10))
        days_since_upload == calculate_days_since_upload(item.age_days)
        estimated_cpm     == estimate_advanced_cpm(item.categoryId, country, duration_seconds)
        engagement_rate   == Rat(likes + comments, safe_views)
    IN  [engagement_rate   |-> engagement_rate,
         like_ratio        |-> Rat(likes, safe_views),
         comment_ratio     |-> Rat(comments, safe_views),
         views_per_day     |-> Rat(views, Max(days_since_upload, 1)),
         views_per_minute  |-> RDiv(RInt(views), duration_minutes),
         estimated_cpm     |-> estimated_cpm,
         estimated_revenue |-> RMul(Rat(views, 1000), estimated_cpm),
         performance_score |->
             calculate_advanced_performance_score(views, likes, comments,
                                                  engagement_rate, duration_seconds),
         content_efficiency_score |->
             calculate_content_efficiency_score(views, duration_minutes, likes, comments),
         engagement_quality_score |->
             calculate_engagement_quality_score(likes, comments, safe_views),
         monetization_potential_score |->
             calculate_monetization_potential(views, engagement_rate,
                                              duration_seconds, estimated_cpm),
         is_short     |-> duration_seconds <= 60,
         is_long_form |-> duration_seconds >= 600]

----------------------------------------------------------------------------
(* Inputs of the per-video metric specification.                           *)

ViewCounts     == {0, 1, 1000, 50000, 2000000}
LikeCounts     == {0, 1, 40, 5000}
CommentCounts  == {0, 3, 2000}
Durations      == {0, 6, 45, 60, 480, 3600}
CategoryIds    == {"29", "22", "99"}
Countries      == {"US", "DE", "BR"}
AgeDays        == {0, 1, 30}

MetricsInit ==
    /\ fn = "none"
    /\ args \in [item : [viewCount : ViewCounts, likeCount : LikeCounts,
                         commentCount : CommentCounts, categoryId : CategoryIds,
                         age_days : AgeDays],
                 duration_seconds : Durations,
                 country : Countries]
    /\ ret = <<>>
    /\ OrchIdle
    /\ DashIdle

ApplyCompleteBiMetrics ==
    /\ fn = "none"
    /\ fn' = "calculate_complete_bi_metrics"
    /\ ret' = calculate_complete_bi_metrics(args.item, args.duration_seconds, args.country)
    /\ UNCHANGED <<args, orchVars, dashVars>>

MetricsNext == ApplyCompleteBiMetrics

SpecMetrics == MetricsInit /\ [][MetricsNext]_vars

InScoreRange(x) == RLe(RInt(0), x) /\ RLe(x, RInt(100))

(* C7: for non-negative counters and durations, each of the four per-video *)
(* scores of calculate_complete_bi_metrics lies between 0 and 100.         *)
C7_ScoresInRange ==
    fn = "calculate_complete_bi_metrics" =>
        /\ InScoreRange(ret.performance_score)
        /\ InScoreRange(ret.content_efficiency_score)
        /\ InScoreRange(ret.engagement_quality_score)
        /\ InScoreRange(ret.monetization_potential_score)

\* a heavily engaged long video: every component of the performance score is at its
\* cap, and the engagement-quality and monetization scores are cut off at 100
C7_Witness ==
    /\ fn = "calculate_complete_bi_metrics"
    /\ args.item.viewCount = 50000
    /\ args.duration_seconds = 480
    /\ RLt(RInt(1), RMul(ret.engagement_rate, RInt(25)))
    /\ ret.performance_score = RInt(100)
    /\ ret.engagement_quality_score = RInt(100)
    /\ ret.monetization_potential_score = RInt(100)
    /\ RLt(RInt(0), ret.content_efficiency_score)

----------------------------------------------------------------------------
(* scraping_1_4.py: playlist performance metrics.                          *)
(* A video of the channel's performance data is a record                   *)
(*   [video_id, position, view_count, like_count, comment_count,           *)
(*    estimated_revenue].                                                  *)

\* sorted(videos, key=position): stable insertion sort, ascending
RECURSIVE InsertByPosition(_, _)
InsertByPosition(sorted, x) ==
    IF sorted = <<>> THEN <<x>>
    ELSE IF x.position < Head(sorted).position
         THEN <<x>> \o sorted
         ELSE <<Head(sorted)>> \o InsertByPosition(Tail(sorted), x)

RECURSIVE SortByPositionFrom(_, _)
SortByPositionFrom(done, rest) ==
    IF rest = <<>> THEN done
    ELSE SortByPositionFrom(InsertByPosition(done, Head(rest)), Tail(rest))

SortByPositionListOrder(s) == s

SortByPosition(s) == SortByPositionFrom(<<>>, s)

estimate_series_completion_rate(playlist_videos_data) ==
    IF Len(playlist_videos_data) < 2 THEN RInt(1)
    ELSE LET sorted_videos == SortByPosition(playlist_videos_data)
             view_counts   == [i \in 1..Len(sorted_videos) |-> sorted_videos[i].view_count]
         IN  IF view_counts = <<>> \/ view_counts[1] = 0 THEN RInt(0)
             ELSE LET first_video_views == view_counts[1]
                      last_video_views  == view_counts[Len(view_counts)]
                      completion_rate   == Rat(last_video_views, first_video_views)
                      length_adjustment ==
                          RMax(Rat(3, 10),
                               RSub(RInt(1),
                                    RMul(RInt(Len(playlist_videos_data) - 1), Rat(5, 100))))
                  IN  RMin(RMul(completion_rate, length_adjustment), RInt(1))

calculate_playlist_performance_score_uncapped(avg_views, engagement_rate, video_count, completion_rate) ==
    LET views_score      == RMul(RDiv(avg_views, RInt(10000)), RInt(30))
        engagement_score == RMul(RMin(RMul(engagement_rate, RInt(1000)), RInt(1)), RInt(25))
        completion_score == RMul(completion_rate, RInt(25))
        length_bonus     == RMul(RMin(Rat(video_count, 10), RInt(1)), RInt(20))
    IN  RAdd(RAdd(views_score, engagement_score), RAdd(completion_score, length_bonus))

calculate_playlist_performance_score(avg_views, engagement_rate, video_count, completion_rate) ==
    LET views_score      == RMul(RMin(RDiv(avg_views, RInt(10000)), RInt(1)), RInt(30))
        engagement_score == RMul(RMin(RMul(engagement_rate, RInt(1000)), RInt(1)), RInt(25))
        completion_score == RMul(completion_rate, RInt(25))
        length_bonus     == RMul(RMin(Rat(video_count, 10), RInt(1)), RInt(20))
    IN  RMin(RAdd(RAdd(views_score, engagement_score),
                  RAdd(completion_score, length_bonus)), RInt(100))

classify_monetization_potential(total_revenue, video_count) ==
    IF video_count = 0 THEN "None"
    ELSE LET avg_revenue == RDiv(total_revenue, RInt(video_count))
         IN  IF RLe(RInt(50), avg_revenue) THEN "High"
             ELSE IF RLe(RInt(10), avg_revenue) THEN "Medium"
             ELSE "Low"

\* performance_lookup = {v['video_id']: v ...}: the last video of an id wins
PerformanceLookup(all_videos_performance, video_id) ==
    LET idx == {i \in 1..Len(all_videos_performance) :
                    all_videos_performance[i].video_id = video_id}
    IN  all_videos_performance[CHOOSE i \in idx : \A j \in idx : j <= i]

InPerformanceLookup(all_videos_performance, video_id) ==
    \E i \in 1..Len(all_videos_performance) :
        all_videos_performance[i].video_id = video_id

\* every video of the performance data, whatever the playlist holds
PlaylistVideosDataAll(video_ids, all_videos_performance) == all_videos_performance

\* the playlist's videos found in the performance data, in playlist order
RECURSIVE PlaylistVideosData(_, _)
PlaylistVideosData(video_ids, all_videos_performance) ==
    IF video_ids = <<>> THEN <<>>
    ELSE IF InPerformanceLookup(all_videos_performance, Head(video_ids))
         THEN <<PerformanceLookup(all_videos_performance, Head(video_ids))>>
              \o PlaylistVideosData(Tail(video_ids), all_videos_performance)
         ELSE PlaylistVideosData(Tail(video_ids), all_videos_performance)

RECURSIVE RSeqSum(_)
RSeqSum(s) == IF s = <<>> THEN RInt(0) ELSE RAdd(Head(s), RSeqSum(Tail(s)))

\* the returned dict; {} is the record with no field.  viewership_consistency (a
\* standard deviation) is left out of the returned record.
calculate_playlist_performance_metrics(playlist_data, all_videos_performance) ==
    LET playlist_videos_data ==
            PlaylistVideosData(playlist_data.video_ids, all_videos_performance)
        n == Len(playlist_videos_data)
    IN  IF playlist_videos_data = <<>> THEN <<>>
        ELSE LET total_views    == SeqSum([i \in 1..n |-> playlist_videos_data[i].view_count])
                 total_likes    == SeqSum([i \in 1..n |-> playlist_videos_data[i].like_count])
                 total_comments == SeqSum([i \in 1..n |-> playlist_videos_data[i].comment_count])
                 total_revenue  ==
                     RSeqSum([i \in 1..n |-> playlist_videos_data[i].estimated_revenue])
                 avg_views      == Rat(total_views, n)
                 playlist_engagement_rate ==
                     Rat(total_likes + total_comments, Max(total_views, 1))
                 completion_estimate ==
                     estimate_series_completion_rate(playlist_videos_data)
             IN  [total_playlist_views       |-> total_views,
                  avg_views_per_video        |-> RRound(avg_views, 0),
                  playlist_engagement_rate   |-> RRound(playlist_engagement_rate, 6),
                  series_completion_estimate |-> RRound(completion_estimate, 3),
                  total_playlist_revenue     |-> RRound(total_revenue, 2),
                  playlist_performance_score |->
                      RRound(calculate_playlist_performance_score(
                                 avg_views, playlist_engagement_rate, n,
                                 completion_estimate), 2),
                  playlist_videos_analyzed   |-> n,
                  monetization_potential     |->
                      classify_monetization_potential(total_revenue, n)]

\* the performance metrics get_channel_playlists gives a playlist before its
\* items are listed
default_performance_metrics ==
    [total_playlist_views       |-> 0,
     avg_views_per_video        |-> RInt(0),
     playlist_engagement_rate   |-> RInt(0),
     series_completion_estimate |-> RInt(0),
     monetization_potential     |-> "Unknown"]

\* d.update(u)
DictUpdate(d, u) ==
    [k \in (DOMAIN d) \cup (DOMAIN u) |-> IF k \in DOMAIN u THEN u[k] ELSE d[k]]

\* get_playlist_details once the items are listed: the video ids are stored and
\* the metrics, when there is performance data, update the playlist
get_playlist_details(playlist_data, video_ids, performance_data) ==
    LET listed == DictUpdate(playlist_data, [video_ids |-> video_ids])
    IN  IF performance_data.videos # <<>>
        THEN DictUpdate(listed,
                 calculate_playlist_performance_metrics(listed, performance_data.videos))
        ELSE listed

----------------------------------------------------------------------------
(* Inputs of the playlist specification.                                   *)

MaxVideos == 2
MaxPlaylistLen == 3
MaxSeriesLen == 16

VideoStats ==
    { [view_count |-> 0,     like_count |-> 0,   comment_count |-> 0, estimated_revenue |-> RInt(0)],
      [view_count |-> 10,    like_count |-> 5,   comment_count |-> 1, estimated_revenue |-> Rat(3, 100)],
      [view_count |-> 50000, like_count |-> 0,   comment_count |-> 2, estimated_revenue |-> RInt(60)],
      [view_count |-> 200,   like_count |-> 500, comment_count |-> 0, estimated_revenue |-> RInt(12)] }

\* the channel's enriched uploads: the i-th video has id i and position i - 1
VideoRecord(i, st) ==
    [video_id |-> i, position |-> i - 1, view_count |-> st.view_count,
     like_count |-> st.like_count, comment_count |-> st.comment_count,
     estimated_revenue |-> st.estimated_revenue]

PerformanceLists ==
    UNION { { [i \in 1..n |-> VideoRecord(i, f[i])] : f \in [1..n -> VideoStats] } :
            n \in 0..MaxVideos }

\* playlists of the channel: ids of its uploads, repeated or not, and of videos
\* (id 0) that are not in the performance data
PlaylistIdLists ==
    UNION { [1..n -> 0..MaxVideos] : n \in 0..MaxPlaylistLen }

\* a series of n videos at positions 0..n-1, given in ascending or descending
\* order of position; the ends have the given view counts
SeriesViews == {0, 10, 40, 200}

BuildSeries(n, first_views, last_views, descending) ==
    [i \in 1..n |->
        LET pos == IF descending THEN n - i ELSE i - 1
        IN  VideoRecord(pos + 1,
                [view_count |-> IF pos = 0 THEN first_views
                                ELSE IF pos = n - 1 THEN last_views ELSE 25,
                 like_count |-> 1, comment_count |-> 0,
                 estimated_revenue |-> RInt(0)])]

PlaylistInit ==
    /\ fn = "none"
    /\ \/ args \in [playlist_data : [video_ids : PlaylistIdLists],
                    all_videos_performance : PerformanceLists]
       \/ \E n \in 0..MaxSeriesLen, fv \in SeriesViews, lv \in SeriesViews, desc \in BOOLEAN :
              args = [playlist_videos_data |-> BuildSeries(n, fv, lv, desc)]
    /\ ret = <<>>
    /\ OrchIdle
    /\ DashIdle

ApplyPlaylistPerformanceMetrics ==
    /\ fn = "none"
    /\ "playlist_data" \in DOMAIN args
    /\ fn' = "calculate_playlist_performance_metrics"
    /\ ret' = calculate_playlist_performance_metrics(args.playlist_data,
                                                     args.all_videos_performance)
    /\ UNCHANGED <<args, orchVars, dashVars>>

ApplySeriesCompletionRate ==
    /\ fn = "none"
    /\ "playlist_videos_data" \in DOMAIN args
    /\ fn' = "estimate_series_completion_rate"
    /\ ret' = estimate_series_completion_rate(args.playlist_videos_data)
    /\ UNCHANGED <<args, orchVars, dashVars>>

ApplyPlaylistDetails ==
    /\ fn = "none"
    /\ "playlist_data" \in DOMAIN args
    /\ fn' = "get_playlist_details"
    /\ ret' = get_playlist_details(default_performance_metrics,
                                   args.playlist_data.video_ids,
                                   [videos |-> args.all_videos_performance])
    /\ UNCHANGED <<args, orchVars, dashVars>>

PlaylistNext ==
    \/ ApplyPlaylistPerformanceMetrics
    \/ ApplySeriesCompletionRate
    \/ ApplyPlaylistDetails

SpecPlaylist == PlaylistInit /\ [][PlaylistNext]_vars

(* C8: whenever calculate_playlist_performance_metrics computes metrics    *)
(* (some video of the playlist is in the performance data),                *)
(* playlist_performance_score lies between 0 and 100.                      *)
C8_PlaylistScoreInRange ==
    (fn = "calculate_playlist_performance_metrics" /\ DOMAIN ret # {}) =>
        InScoreRange(ret.playlist_performance_score)

\* a playlist whose average views are several times the 10000-view cap
C8_Witness ==
    /\ fn = "calculate_playlist_performance_metrics"
    /\ DOMAIN ret # {}
    /\ ret.playlist_videos_analyzed = 2
    /\ ret.total_playlist_views = 100000
    /\ RLt(RInt(55), ret.playlist_performance_score)

(* C10: estimate_series_completion_rate returns a value in [0, 1]: 1 for   *)
(* fewer than 2 videos, 0 when the video of lowest position has 0 views,   *)
(* else min(last/first * max(0.3, 1 - 0.05*(n-1)), 1), first and last      *)
(* being the videos of lowest and highest position.                        *)
C10_SeriesCompletion ==
    fn = "estimate_series_completion_rate" =>
        LET vs == args.playlist_videos_data
            n  == Len(vs)
            lo == CHOOSE i \in 1..n : \A j \in 1..n : vs[i].position <= vs[j].position
            hi == CHOOSE i \in 1..n : \A j \in 1..n : vs[j].position <= vs[i].position
            \* 20 * max(0.3, 1 - 0.05*(n-1))
            adj20 == Max(6, 20 - (n - 1))
        IN  /\ RLe(RInt(0), ret) /\ RLe(ret, RInt(1))
            /\ n < 2 => ret = RInt(1)
            /\ (n >= 2 /\ vs[lo].view_count = 0) => ret = RInt(0)
            /\ (n >= 2 /\ vs[lo].view_count # 0) =>
                   IF vs[hi].view_count * adj20 >= 20 * vs[lo].view_count
                   THEN ret = RInt(1)
                   ELSE ret.n * 20 * vs[lo].view_count = ret.d * vs[hi].view_count * adj20

\* a long series given last-position-first, where the 0.3 floor of the length
\* adjustment applies: 40/200 * 0.3
C10_Witness ==
    /\ fn = "estimate_series_completion_rate"
    /\ Len(args.playlist_videos_data) = 16
    /\ args.playlist_videos_data[1].position = 15
    /\ args.playlist_videos_data[1].view_count = 40
    /\ args.playlist_videos_data[16].view_count = 200
    /\ ret = [n |-> 3, d |-> 50]

----------------------------------------------------------------------------
(* scraping_1_5.py: competitive benchmarking.                              *)

\* sorted(values), ascending
RECURSIVE InsertInt(_, _)
InsertInt(sorted, x) ==
    IF sorted = <<>> THEN <<x>>
    ELSE IF x < Head(sorted) THEN <<x>> \o sorted
         ELSE <<Head(sorted)>> \o InsertInt(Tail(sorted), x)

RECURSIVE SortedFrom(_, _)
SortedFrom(done, rest) ==
    IF rest = <<>> THEN done ELSE SortedFrom(InsertInt(done, Head(rest)), Tail(rest))

Sorted(values) == SortedFrom(<<>>, values)

Reversed(s) == [i \in 1..Len(s) |-> s[Len(s) + 1 - i]]

\* list.index(x), 0-based; -1 stands for the ValueError of a value not in the list
ListIndex(s, x) ==
    IF \E i \in 1..Len(s) : s[i] = x
    THEN (CHOOSE i \in 1..Len(s) : s[i] = x /\ \A j \in 1..(i - 1) : s[j] # x) - 1
    ELSE -1

\* the result of a call: a returned value, or the exception it raised
Returned(v) == [raised |-> "", value |-> v]
Raised(exc) == [raised |-> exc, value |-> RInt(0)]

calculate_ranking(target_value, competitor_values) ==
    ListIndex(Reversed(Sorted(<<target_value>> \o competitor_values)), target_value) + 1

\* a percentile that counts the values up to and including the target
calculate_percentile_inclusive(target_value, all_values) ==
    IF all_values = <<>> THEN Returned(RInt(50))
    ELSE LET idx == ListIndex(Reversed(Sorted(all_values)), target_value)
         IN  IF idx < 0 THEN Raised("ValueError")
             ELSE Returned(RRound(RMul(Rat(Len(all_values) - idx, Len(all_values)), RInt(100)), 1))

calculate_percentile(target_value, all_values) ==
    IF all_values = <<>> THEN Returned(RInt(50))
    ELSE LET idx == ListIndex(Sorted(all_values), target_value)
         IN  IF idx < 0 THEN Raised("ValueError")
             ELSE Returned(RRound(RMul(Rat(idx, Len(all_values)), RInt(100)), 1))

\* statistics.median
Median(values) ==
    LET s == Sorted(values)
        n == Len(s)
    IN  IF n % 2 = 1 THEN RInt(s[(n + 1) \div 2])
        ELSE Rat(s[n \div 2] + s[n \div 2 + 1], 2)

\* statistics.mean
Mean(values) == Rat(SeqSum(values), Len(values))

SeqMax(values) == CHOOSE m \in SeqToSet(values) : \A v \in SeqToSet(values) : v <= m

\* sorted(competitors, key=subscriber_count, reverse=True): stable
RECURSIVE InsertBySubsDesc(_, _)
InsertBySubsDesc(sorted, x) ==
    IF sorted = <<>> THEN <<x>>
    ELSE IF Head(sorted).subscriber_count < x.subscriber_count
         THEN <<x>> \o sorted
         ELSE <<Head(sorted)>> \o InsertBySubsDesc(Tail(sorted), x)

RECURSIVE SortBySubsDescFrom(_, _)
SortBySubsDescFrom(done, rest) ==
    IF rest = <<>> THEN done
    ELSE SortBySubsDescFrom(InsertBySubsDesc(done, Head(rest)), Tail(rest))

\* all_channels = [target_channel] + competitors
AllChannels(target_channel, competitors) == <<target_channel>> \o competitors

\* the returned dict, or the exception an inner call raised
benchmark_performance(target_channel, competitors) ==
    IF competitors = <<>> THEN Returned([error |-> "No competitors to benchmark against"])
    ELSE LET all_channels    == AllChannels(target_channel, competitors)
             sub_counts      == [i \in 1..Len(all_channels) |-> all_channels[i].subscriber_count]
             view_counts     == [i \in 1..Len(all_channels) |-> all_channels[i].total_views]
             avg_view_counts ==
                 [i \in 1..Len(all_channels) |-> all_channels[i].average_views_per_video]
             target_subs     == target_channel.subscriber_count
             target_views    == target_channel.total_views
             sub_pct         == calculate_percentile(target_subs, sub_counts)
             view_pct        == calculate_percentile(target_views, view_counts)
         IN  IF sub_pct.raised # "" THEN Raised(sub_pct.raised)
             ELSE IF view_pct.raised # "" THEN Raised(view_pct.raised)
             ELSE Returned(
                 [subscriber_ranking    |->
                      calculate_ranking(target_subs,
                          [i \in 1..Len(competitors) |-> competitors[i].subscriber_count]),
                  subscriber_percentile |-> sub_pct.value,
                  views_percentile      |-> view_pct.value,
                  market_statistics     |->
                      [median_subscribers         |-> Median(sub_counts),
                       avg_subscribers            |-> RRound(Mean(sub_counts), 0),
                       median_avg_views_per_video |-> RRound(Median(avg_view_counts), 0)],
                  performance_gaps      |->
                      [subscriber_gap_to_leader |-> SeqMax(sub_counts) - target_subs,
                       views_gap_to_leader      |-> SeqMax(view_counts) - target_views],
                  top_competitors_by_subs |->
                      SlicePrefix(SortBySubsDescFrom(<<>>, competitors), 3)])

----------------------------------------------------------------------------
(* Inputs of the benchmarking specification.                               *)

MaxValues == 3

PercentileValues == 0..2

ValueLists == UNION { [1..n -> PercentileValues] : n \in 0..MaxValues }

ChannelStats ==
    { [subscriber_count |-> 0,    total_views |-> 0,      average_views_per_video |-> 0],
      [subscriber_count |-> 500,  total_views |-> 90000,  average_views_per_video |-> 300],
      [subscriber_count |-> 7000, total_views |-> 90000,  average_views_per_video |-> 45] }

CompetitorProfileLists == UNION { [1..n -> ChannelStats] : n \in 0..MaxCompetitors }

BenchmarkInit ==
    /\ fn = "none"
    /\ \/ args \in [target_value : PercentileValues, all_values : ValueLists]
       \/ args \in [target_channel : ChannelStats, competitors : CompetitorProfileLists]
    /\ ret = <<>>
    /\ OrchIdle
    /\ DashIdle

ApplyCalculatePercentile ==
    /\ fn = "none"
    /\ "all_values" \in DOMAIN args
    /\ fn' = "calculate_percentile"
    /\ ret' = calculate_percentile(args.target_value, args.all_values)
    /\ UNCHANGED <<args, orchVars, dashVars>>

ApplyBenchmarkPerformance ==
    /\ fn = "none"
    /\ "competitors" \in DOMAIN args
    /\ fn' = "benchmark_performance"
    /\ ret' = benchmark_performance(args.target_channel, args.competitors)
    /\ UNCHANGED <<args, orchVars, dashVars>>

BenchmarkNext == ApplyCalculatePercentile \/ ApplyBenchmarkPerformance

SpecBenchmark == BenchmarkInit /\ [][BenchmarkNext]_vars

\* 100 * (number of values strictly less than target) / (number of values), to one decimal
ExpectedPercentile(target_value, all_values) ==
    RRound(Rat(100 * Cardinality({i \in 1..Len(all_values) : all_values[i] < target_value}),
               Len(all_values)), 1)

----------------------------------------------------------------------------
(* main.py: run_full_bi_analysis, with the API of the platform as its      *)
(* environment.  The file system is taken to be reliable.                  *)

MaxPages == 2
MaxRunCompetitors == 2

\* the target channels of the runs
RunTargets == {TargetFoxNews, TargetAi}

\* maxResults=50 of the listings, and the batch size of the details requests
PageSize == 50

TargetId == "UCtarget"

\* what channels().list returns for the target: channel_info of scraping_1_1
TargetChannelData(profile) ==
    [channel_id |-> TargetId, channel_title |-> profile.channel_title,
     description |-> profile.description,
     subscriber_count |-> 500, total_views |-> 90000, average_views_per_video |-> 300]

\* the other channels of the platform
CompetitorIds == {"UC1", "UC2", "UC3"}

Platform(channel_id) ==
    CASE channel_id = "UC1" ->
           [channel_title |-> <<"fox", "news">>, description |-> <<"daily", "news">>,
            subscriber_count |-> 7000, total_views |-> 90000, average_views_per_video |-> 45]
      [] channel_id = "UC2" ->
           [channel_title |-> <<"daily", "tech">>, description |-> <<"tech", "news">>,
            subscriber_count |-> 0, total_views |-> 0, average_views_per_video |-> 0]
      [] channel_id = "UC3" ->
           [channel_title |-> <<"top10">>, description |-> <<"tech">>,
            subscriber_count |-> 500, total_views |-> 1000, average_views_per_video |-> 300]
      [] OTHER ->
           [channel_title |-> <<"Fox", "News">>, description |-> <<>>,
            subscriber_count |-> 500, total_views |-> 90000, average_views_per_video |-> 300]

\* the channel ids of the items of a search response
SearchResults == { <<>>, <<"UC1", "UCtarget", "UC2">>, <<"UC3", "UC1", "UC3">> }

\* how a request to the API ends: a response, an HttpError, or another exception
\* (a transport error)
ApiErrors == {"HttpError", "Error"}

stop_words == {"the", "and", "or", "in", "on", "at", "to", "for", "of", "with", "by",
               "channel", "youtube", "subscribe", "like", "video"}

\* the distinct words of a list, in order of first occurrence
RECURSIVE Distinct(_)
Distinct(s) ==
    IF s = <<>> THEN <<>>
    ELSE LET rest == Distinct(SubSeq(s, 1, Len(s) - 1))
         IN  IF s[Len(s)] \in SeqToSet(rest) THEN rest ELSE Append(rest, s[Len(s)])

Count(s, w) == Cardinality({k \in 1..Len(s) : s[k] = w})

\* Counter(words).most_common(): by count, descending; equal counts in order of
\* first occurrence
RECURSIVE InsertByCount(_, _, _)
InsertByCount(sorted, w, words) ==
    IF sorted = <<>> THEN <<w>>
    ELSE IF Count(words, Head(sorted)) < Count(words, w)
         THEN <<w>> \o sorted
         ELSE <<Head(sorted)>> \o InsertByCount(Tail(sorted), w, words)

RECURSIVE MostCommonFrom(_, _, _)
MostCommonFrom(done, rest, words) ==
    IF rest = <<>> THEN done
    ELSE MostCommonFrom(InsertByCount(done, Head(rest), words), Tail(rest), words)

extract_channel_keywords(channel_data) ==
    LET words == FindAll(channel_data.channel_title \o channel_data.description, 3)
        NotStop(w) == w \notin stop_words
        filtered_words == SelectSeq(words, NotStop)
        top_words == SlicePrefix(MostCommonFrom(<<>>, Distinct(filtered_words),
                                                filtered_words), 5)
    IN  top_words

\* competitor_candidate of a search item
CompetitorCandidate(channel_id) ==
    [channel_id |-> channel_id, channel_title |-> Platform(channel_id).channel_title,
     description |-> Platform(channel_id).description]

\* the inner loop, were it to append every item
RECURSIVE AddItemsUnchecked(_, _)
AddItemsUnchecked(frame, items) ==
    IF items = <<>> THEN frame
    ELSE AddItemsUnchecked([frame EXCEPT
                               !.unique_channel_ids = @ \cup {Head(items)},
                               !.competitors = Append(@, CompetitorCandidate(Head(items)))],
                           Tail(items))

\* the inner loop of find_similar_channels over the items of one response
RECURSIVE AddItems(_, _)
AddItems(frame, items) ==
    IF items = <<>> THEN frame
    ELSE LET channel_id == Head(items)
         IN  IF channel_id \notin frame.unique_channel_ids
             THEN AddItems([frame EXCEPT
                               !.unique_channel_ids = @ \cup {channel_id},
                               !.competitors = Append(@, CompetitorCandidate(channel_id))],
                           Tail(items))
             ELSE AddItems(frame, Tail(items))

\* a profile whose relevance_score is the default of competitor.get
CompetitorProfileDefaultScore(competitor) ==
    [channel_id |-> competitor.channel_id,
     channel_title |-> Platform(competitor.channel_id).channel_title,
     description |-> Platform(competitor.channel_id).description,
     subscriber_count |-> Platform(competitor.channel_id).subscriber_count,
     total_views |-> Platform(competitor.channel_id).total_views,
     average_views_per_video |-> Platform(competitor.channel_id).average_views_per_video,
     relevance_score |-> RInt(0)]

\* get_basic_channel_stats, with the relevance_score added by collect_competitor_data
CompetitorProfile(competitor) ==
    [channel_id |-> competitor.channel_id,
     channel_title |-> Platform(competitor.channel_id).channel_title,
     description |-> Platform(competitor.channel_id).description,
     subscriber_count |-> Platform(competitor.channel_id).subscriber_count,
     total_views |-> Platform(competitor.channel_id).total_views,
     average_views_per_video |-> Platform(competitor.channel_id).average_views_per_video,
     relevance_score |-> competitor.relevance_score]

generate_competitive_insights(target_channel, competitors, competitive_analysis) ==
    IF competitors = <<>> \/ "market_statistics" \notin DOMAIN competitive_analysis
    THEN [error |-> "Insufficient data for insights."]
    ELSE LET target_subs == target_channel.subscriber_count
             median_subs == competitive_analysis.market_statistics.median_subscribers
         IN  [market_position |->
                  IF RLt(median_subs, RInt(target_subs)) THEN "Above Median" ELSE "Below Median",
              close_gap |-> RLt(RInt(target_subs), median_subs)]

create_empty_competitive_analysis(channel_data) ==
    [target_channel |-> channel_data.channel_id,
     competitors |-> <<>>,
     competitive_analysis |-> [error |-> "No competitors found"],
     competitive_insights |-> [error |-> "Insufficient data for analysis"]]

\* an API request, and the note that it was issued
Request(api, id, sub, page) == [api |-> api, id |-> id, sub |-> sub, page |-> page]

NoRequest == Request("", "", 0, 0)

\* a request is issued and answered
Issue(req) ==
    /\ last_failed' = NoRequest
    /\ retried' = (retried \/ req = last_failed)

\* a request is issued and fails
IssueFails(req) ==
    /\ last_failed' = req
    /\ retried' = (retried \/ req = last_failed)

NoDive == [page |-> 0, n_videos |-> 0, batch |-> 0, enhanced |-> 0,
           all_playlists |-> <<>>, playlist |-> 0, pl_page |-> 0]
NoFsc == [search_terms |-> <<>>, term |-> 0, competitors |-> <<>>,
          unique_channel_ids |-> {}, raised |-> ""]
NoCcd == [competitors |-> <<>>, idx |-> 0, competitor_profiles |-> <<>>, skipped |-> {}]
\* None, or the analysis of a channel's videos / playlists
None == [none |-> TRUE, videos |-> FALSE]
Analysis(videos) == [none |-> FALSE, videos |-> videos]
NoDeepDiveData == [video_analysis |-> None, playlist_analysis |-> None]

Init ==
    /\ PureIdle
    /\ DashIdle
    /\ pc = "step1"
    /\ \E profile \in RunTargets, k \in 0..MaxRunCompetitors :
          run = [max_competitors |-> k, target_profile |-> profile,
                 target_channel_data |-> <<>>, channels_to_analyze |-> <<>>,
                 i |-> 0, deep_dive_data |-> NoDeepDiveData]
    /\ full_analysis_report = [target_channel_id |-> "None",
                               competitor_overview |-> [none |-> TRUE],
                               channel_deep_dives |-> <<>>]
    /\ fsc = NoFsc
    /\ ccd = NoCcd
    /\ dive = NoDive
    /\ result = "running"
    /\ files = [report_folder |-> FALSE, json |-> FALSE, csv |-> FALSE]
    /\ last_failed = NoRequest
    /\ retried = FALSE
    /\ dives = <<>>
    /\ caught = {}

\* the outer except of run_full_bi_analysis, were it to return the report
ReturnReport ==
    /\ result' = "report"
    /\ pc' = "done"

\* the outer except of run_full_bi_analysis: log, return None
ReturnNone ==
    /\ result' = "None"
    /\ pc' = "done"

\* Step 1: get_enhanced_channel_statistics(target_url); it raises when the URL
\* cannot be resolved (before any channels request), the request fails or the
\* channel is not found
Step1OutcomeSet == {"ok", "unresolved_url", "not_found"} \cup ApiErrors

Step1 ==
    /\ pc = "step1"
    /\ \E outcome \in Step1OutcomeSet :
          /\ CASE outcome \in ApiErrors -> IssueFails(Request("channels", TargetId, 0, 1))
               [] outcome = "unresolved_url" -> UNCHANGED <<last_failed, retried>>
               [] OTHER -> Issue(Request("channels", TargetId, 0, 1))
          /\ IF outcome = "ok"
             THEN LET target_channel_data == TargetChannelData(run.target_profile)
                  IN  /\ run' = [run EXCEPT !.target_channel_data = target_channel_data]
                      /\ full_analysis_report' =
                             [full_analysis_report EXCEPT
                                 !.target_channel_id = target_channel_data.channel_id]
                      \* Step 2 begins: analyze_competitors -> find_similar_channels
                      /\ fsc' = [search_terms |-> extract_channel_keywords(target_channel_data),
                                 term |-> 1, competitors |-> <<>>,
                                 unique_channel_ids |-> {target_channel_data.channel_id},
                                 raised |-> ""]
                      /\ pc' = "find_similar_channels"
                      /\ UNCHANGED result
             ELSE /\ ReturnNone
                  /\ UNCHANGED <<run, full_analysis_report, fsc>>
    /\ UNCHANGED <<pureVars, dashVars, ccd, dive, files, dives, caught>>

\* Step 3 begins: channels_to_analyze = [target_channel_data] + competitors
BeginDeepDives(competitor_analysis_result) ==
    /\ full_analysis_report' =
           [full_analysis_report EXCEPT !.competitor_overview = competitor_analysis_result]
    /\ run' = [run EXCEPT
                  !.channels_to_analyze =
                      <<run.target_channel_data>> \o competitor_analysis_result.competitors,
                  !.i = 1,
                  !.deep_dive_data = NoDeepDiveData]
    /\ dive' = [NoDive EXCEPT !.page = 1]
    /\ pc' = "get_all_videos"

\* an HttpError of the search request, were it to reach the outer except of
\* run_full_bi_analysis
SearchHttpErrorPropagates ==
    /\ ReturnNone
    /\ UNCHANGED <<run, full_analysis_report, dive>>

\* except HttpError in find_similar_channels: return []; analyze_competitors then
\* returns the empty analysis and Step 3 begins
SearchHttpError ==
    /\ BeginDeepDives(create_empty_competitive_analysis(run.target_channel_data))
    /\ UNCHANGED result

\* one search request of find_similar_channels, for search_terms[:3][term]
SearchTerm ==
    /\ pc = "find_similar_channels"
    /\ fsc.term <= Len(SlicePrefix(fsc.search_terms, 3))
    /\ \/ \E items \in SearchResults :
             /\ Issue(Request("search", fsc.search_terms[fsc.term], 0, 1))
             /\ fsc' = [AddItems(fsc, items) EXCEPT !.term = fsc.term + 1]
             /\ UNCHANGED <<pc, run, full_analysis_report, dive, result>>
       \/ /\ IssueFails(Request("search", fsc.search_terms[fsc.term], 0, 1))
          /\ fsc' = [fsc EXCEPT !.raised = "HttpError"]
          /\ SearchHttpError
       \/ \* any other exception reaches the outer except of run_full_bi_analysis
          /\ IssueFails(Request("search", fsc.search_terms[fsc.term], 0, 1))
          /\ fsc' = [fsc EXCEPT !.raised = "Error"]
          /\ ReturnNone
          /\ UNCHANGED <<run, full_analysis_report, dive>>
    /\ UNCHANGED <<pureVars, dashVars, ccd, files, dives, caught>>

\* the loop of find_similar_channels over search_terms[:3] is over
SearchLoopOver ==
    /\ pc = "find_similar_channels"
    /\ fsc.term > Len(SlicePrefix(fsc.search_terms, 3))

\* after the search loop: filter_and_rank_competitors, and the test of
\* analyze_competitors for an empty shortlist

FilterAndRank ==
    /\ SearchLoopOver
    /\ LET filtered_competitors ==
               filter_and_rank_competitors(fsc.competitors, run.target_channel_data,
                                           run.max_competitors)
       IN  IF filtered_competitors = <<>>
           THEN /\ BeginDeepDives(create_empty_competitive_analysis(run.target_channel_data))
                /\ UNCHANGED ccd
           ELSE /\ ccd' = [competitors |-> filtered_competitors, idx |-> 1,
                           competitor_profiles |-> <<>>, skipped |-> {}]
                /\ pc' = "collect_competitor_data"
                /\ UNCHANGED <<run, full_analysis_report, dive>>
    /\ UNCHANGED <<pureVars, dashVars, fsc, result, files, last_failed, retried, dives, caught>>

\* one get_basic_channel_stats of collect_competitor_data: a profile, or nothing
\* (no item, an HttpError, or an exception caught by the loop)
StatsOutcomeSet == {"ok", "no_items"} \cup ApiErrors

CollectCompetitor ==
    /\ pc = "collect_competitor_data"
    /\ ccd.idx <= Len(ccd.competitors)
    /\ \E outcome \in StatsOutcomeSet :
          /\ IF outcome \in ApiErrors
             THEN IssueFails(Request("channels", ccd.competitors[ccd.idx].channel_id, 0, 1))
             ELSE Issue(Request("channels", ccd.competitors[ccd.idx].channel_id, 0, 1))
          /\ ccd' = [ccd EXCEPT
                     !.idx = @ + 1,
                     !.competitor_profiles =
                         IF outcome = "ok"
                         THEN Append(@, CompetitorProfile(ccd.competitors[ccd.idx]))
                         ELSE @,
                     !.skipped = IF outcome = "ok" THEN @ ELSE @ \cup {ccd.idx}]
    /\ UNCHANGED <<pureVars, dashVars, pc, run, full_analysis_report, fsc, dive, result, files,
                   dives, caught>>

\* the loop of collect_competitor_data is over
CollectLoopOver ==
    /\ pc = "collect_competitor_data"
    /\ ccd.idx > Len(ccd.competitors)

\* the rest of analyze_competitors: benchmark, insights, results
Benchmark ==
    /\ CollectLoopOver
    /\ LET competitive_analysis ==
               benchmark_performance(run.target_channel_data, ccd.competitor_profiles)
       IN  IF competitive_analysis.raised # ""
           THEN /\ ReturnNone
                /\ UNCHANGED <<run, full_analysis_report, dive>>
           ELSE /\ BeginDeepDives(
                       [target_channel |-> run.target_channel_data.channel_id,
                        competitors |-> ccd.competitor_profiles,
                        competitive_analysis |-> competitive_analysis.value,
                        competitive_insights |->
                            generate_competitive_insights(run.target_channel_data,
                                ccd.competitor_profiles, competitive_analysis.value)])
                /\ UNCHANGED result
    /\ UNCHANGED <<pureVars, dashVars, fsc, ccd, files, last_failed, retried, dives, caught>>

\* full_analysis_report['channel_deep_dives'][channel_id] = deep_dive_data
DictSet(d, k, v) == [x \in (DOMAIN d) \cup {k} |-> IF x = k THEN v ELSE d[x]]

Channel == run.channels_to_analyze[run.i]

\* line 137 and the step of the for loop: the deep dive is recorded, and the next
\* channel's deep dive begins or, after the last channel, the saving step
RecordDive(deep_dive_data, raised) ==
    /\ full_analysis_report' =
           [full_analysis_report EXCEPT
               !.channel_deep_dives =
                   DictSet(@, Channel.channel_id,
                           [channel_data |-> Channel,
                            video_analysis |-> deep_dive_data.video_analysis,
                            playlist_analysis |-> deep_dive_data.playlist_analysis])]
    /\ dives' = Append(dives, Channel.channel_id)
    /\ caught' = IF raised THEN caught \cup {Channel.channel_id} ELSE caught
    /\ IF run.i < Len(run.channels_to_analyze)
       THEN /\ run' = [run EXCEPT !.i = @ + 1, !.deep_dive_data = NoDeepDiveData]
            /\ dive' = [NoDive EXCEPT !.page = 1]
            /\ pc' = "get_all_videos"
       ELSE /\ run' = [run EXCEPT !.deep_dive_data = deep_dive_data]
            /\ dive' = NoDive
            /\ pc' = "save"

\* an except of the deep dive that goes on to the next channel without line 137
DeepDiveUnrecorded ==
    /\ caught' = caught \cup {Channel.channel_id}
    /\ dives' = Append(dives, Channel.channel_id)
    /\ UNCHANGED full_analysis_report
    /\ IF run.i < Len(run.channels_to_analyze)
       THEN /\ run' = [run EXCEPT !.i = @ + 1, !.deep_dive_data = NoDeepDiveData]
            /\ dive' = [NoDive EXCEPT !.page = 1]
            /\ pc' = "get_all_videos"
       ELSE /\ dive' = NoDive
            /\ pc' = "save"
            /\ UNCHANGED run

\* the except of the deep dive: the exception is logged, the dive recorded as it is
DeepDiveRaises == RecordDive(run.deep_dive_data, TRUE)

\* the listings stop after MaxPages pages: a response of the last page has no
\* nextPageToken
HasNextPage(page) == IF page < MaxPages THEN BOOLEAN ELSE {FALSE}

\* get_all_videos: one page of the uploads playlist
ListUploadsPage ==
    /\ pc = "get_all_videos"
    /\ LET req == Request("playlistItems", Channel.channel_id, 0, dive.page)
       IN  \/ \* the request raises: get_all_videos raises Exception
              /\ IssueFails(req)
              /\ DeepDiveRaises
           \/ \E items \in {0, PageSize}, next_page_token \in HasNextPage(dive.page) :
                 /\ Issue(req)
                 /\ IF next_page_token
                    THEN /\ dive' = [dive EXCEPT !.page = @ + 1, !.n_videos = @ + items]
                         /\ UNCHANGED <<pc, run>>
                    ELSE IF dive.n_videos + items = 0
                    THEN \* no videos: get_all_videos_with_full_analysis returns None
                         /\ run' = [run EXCEPT !.deep_dive_data.video_analysis = None]
                         /\ dive' = [NoDive EXCEPT !.page = 1]
                         /\ pc' = "get_channel_playlists"
                    ELSE /\ dive' = [dive EXCEPT !.n_videos = @ + items, !.batch = 0]
                         /\ pc' = "get_and_process_video_details"
                         /\ UNCHANGED run
                 /\ UNCHANGED <<full_analysis_report, dives, caught>>
    /\ UNCHANGED <<pureVars, dashVars, fsc, ccd, result, files>>

\* get_and_process_video_details: one batch of at most 50 ids
VideoDetailsBatch ==
    /\ pc = "get_and_process_video_details"
    /\ dive.batch < dive.n_videos
    /\ LET req == Request("videos", Channel.channel_id, dive.batch, 1)
           asked == Min(PageSize, dive.n_videos - dive.batch)
       IN  \/ /\ IssueFails(req)
              /\ DeepDiveRaises
           \/ \E returned \in {asked} :
                 /\ Issue(req)
                 /\ IF dive.batch + PageSize < dive.n_videos
                    THEN /\ dive' = [dive EXCEPT !.batch = @ + PageSize,
                                                 !.enhanced = @ + returned]
                         /\ UNCHANGED <<pc, run>>
                    ELSE /\ run' = [run EXCEPT !.deep_dive_data.video_analysis =
                                                   Analysis(dive.enhanced + returned > 0)]
                         /\ dive' = [NoDive EXCEPT !.page = 1]
                         /\ pc' = "get_channel_playlists"
                 /\ UNCHANGED <<full_analysis_report, dives, caught>>
    /\ UNCHANGED <<pureVars, dashVars, fsc, ccd, result, files>>

\* the item_count of the playlists of one page of playlists().list
PlaylistPages == { <<>>, <<0, 3>> }

\* get_channel_playlists: one page of the channel's playlists
ListPlaylistsPage ==
    /\ pc = "get_channel_playlists"
    /\ LET req == Request("playlists", Channel.channel_id, 0, dive.page)
       IN  \/ /\ IssueFails(req)
              /\ DeepDiveRaises
           \/ \E page_items \in PlaylistPages, next_page_token \in HasNextPage(dive.page) :
                 /\ Issue(req)
                 /\ IF next_page_token
                    THEN /\ dive' = [dive EXCEPT !.page = @ + 1,
                                                 !.all_playlists = @ \o page_items]
                         /\ UNCHANGED pc
                    ELSE /\ dive' = [dive EXCEPT !.all_playlists = @ \o page_items,
                                                 !.playlist = 1, !.pl_page = 1]
                         /\ pc' = "get_playlist_details"
                 /\ UNCHANGED <<run, full_analysis_report, dives, caught>>
    /\ UNCHANGED <<pureVars, dashVars, fsc, ccd, result, files>>

\* the loop over all_playlists: a playlist without items is kept as it is
SkipEmptyPlaylist ==
    /\ pc = "get_playlist_details"
    /\ dive.playlist <= Len(dive.all_playlists)
    /\ dive.all_playlists[dive.playlist] = 0
    /\ dive' = [dive EXCEPT !.playlist = @ + 1]
    /\ UNCHANGED <<pureVars, dashVars, pc, run, full_analysis_report, fsc, ccd, result, files,
                   last_failed, retried, dives, caught>>

\* an except HttpError that asks again for the page that failed
RetryPlaylistPage == UNCHANGED dive

\* except HttpError of get_playlist_details: the playlist is returned as listed so
\* far, and the loop of get_channel_playlists goes on to the next playlist
AbandonPlaylist == dive' = [dive EXCEPT !.playlist = @ + 1, !.pl_page = 1]

\* get_playlist_details: one page of the items of a playlist; an HttpError ends
\* this playlist's listing only
PlaylistItemsPage ==
    /\ pc = "get_playlist_details"
    /\ dive.playlist <= Len(dive.all_playlists)
    /\ dive.all_playlists[dive.playlist] > 0
    /\ LET req == Request("playlistItems", Channel.channel_id, dive.playlist, dive.pl_page)
       IN  \/ \* an exception other than HttpError leaves get_channel_playlists
              /\ IssueFails(req)
              /\ DeepDiveRaises
           \/ \* except HttpError: return playlist_data
              /\ IssueFails(req)
              /\ AbandonPlaylist
              /\ UNCHANGED <<pc, run, full_analysis_report, dives, caught>>
           \/ \E next_page_token \in HasNextPage(dive.pl_page) :
                 /\ Issue(req)
                 /\ dive' = IF next_page_token
                            THEN [dive EXCEPT !.pl_page = @ + 1]
                            ELSE [dive EXCEPT !.playlist = @ + 1, !.pl_page = 1]
                 /\ UNCHANGED <<pc, run, full_analysis_report, dives, caught>>
    /\ UNCHANGED <<pureVars, dashVars, fsc, ccd, result, files>>

\* get_channel_playlists returns, or raises: the deep dive is complete
FinishDive ==
    /\ pc = "get_playlist_details"
    /\ dive.playlist > Len(dive.all_playlists)
    /\ \/ RecordDive([run.deep_dive_data EXCEPT
                         !.playlist_analysis = Analysis(FALSE)], FALSE)
       \/ \* the analytics of the playlists raise
          DeepDiveRaises
    /\ UNCHANGED <<pureVars, dashVars, fsc, ccd, result, files, last_failed, retried>>

\* create_and_save_video_csv writes a file when some deep dive has videos
HasVideoRows(channel_deep_dives) ==
    \E channel_id \in DOMAIN channel_deep_dives :
        /\ ~channel_deep_dives[channel_id].video_analysis.none
        /\ channel_deep_dives[channel_id].video_analysis.videos

\* Step 4: the report folder, the JSON report, the CSV; the report is returned
Save ==
    /\ pc = "save"
    /\ files' = [report_folder |-> TRUE, json |-> TRUE,
                 csv |-> HasVideoRows(full_analysis_report.channel_deep_dives)]
    /\ result' = "report"
    /\ pc' = "done"
    /\ last_failed' = NoRequest
    /\ UNCHANGED <<pureVars, dashVars, run, full_analysis_report, fsc, ccd, dive, retried, dives,
                   caught>>

Next ==
    \/ Step1
    \/ SearchTerm
    \/ FilterAndRank
    \/ CollectCompetitor
    \/ Benchmark
    \/ ListUploadsPage
    \/ VideoDetailsBatch
    \/ ListPlaylistsPage
    \/ SkipEmptyPlaylist
    \/ PlaylistItemsPage
    \/ FinishDive
    \/ Save

Spec == Init /\ [][Next]_vars

\* the steps after Step 1 that wait for the API or the file system
ApiStep ==
    \/ SearchTerm
    \/ CollectCompetitor
    \/ ListUploadsPage
    \/ VideoDetailsBatch
    \/ ListPlaylistsPage
    \/ SkipEmptyPlaylist
    \/ PlaylistItemsPage
    \/ FinishDive
    \/ Save

\* the process runs on while a step is possible: every API call returns, and
\* Step 1 and the two computing steps are taken when they are due (their weak
\* fairness, with ENABLED written out as the guard: each of them is total under
\* its guard)
FairSpec ==
    /\ Spec
    /\ WF_vars(ApiStep)
    /\ ([]<>(pc # "step1") \/ []<><<Step1>>_vars)
    /\ ([]<>(~SearchLoopOver) \/ []<><<FilterAndRank>>_vars)
    /\ ([]<>(~CollectLoopOver) \/ []<><<Benchmark>>_vars)

----------------------------------------------------------------------------
(* The contracts of run_full_bi_analysis.                                  *)

ChannelIds(channels) == [j \in 1..Len(channels) |-> channels[j].channel_id]

NoDuplicates(s) == \A j, k \in 1..Len(s) : s[j] = s[k] => j = k

NoFiles == [report_folder |-> FALSE, json |-> FALSE, csv |-> FALSE]

\* C3: an exception raised during the deep dive of a channel is caught without
\* aborting the run: the channel is recorded in channel_deep_dives with its
\* channel_data, the run does not return None, it goes on to its end, and at its
\* end every channel of the list has been deep-dived and the report is saved
\* and returned.
C3_DeepDiveExceptionCaught ==
    /\ [](\A channel_id \in caught :
            /\ channel_id \in DOMAIN full_analysis_report.channel_deep_dives
            /\ \E j \in 1..Len(run.channels_to_analyze) :
                  /\ run.channels_to_analyze[j].channel_id = channel_id
                  /\ full_analysis_report.channel_deep_dives[channel_id].channel_data
                         = run.channels_to_analyze[j])
    /\ [](caught # {} => result # "None")
    /\ []((caught # {} /\ pc = "done") =>
            /\ result = "report"
            /\ dives = ChannelIds(run.channels_to_analyze)
            /\ DOMAIN full_analysis_report.channel_deep_dives = SeqToSet(dives)
            /\ files.report_folder
            /\ files.json)
    /\ ((caught # {}) ~> (pc = "done"))

\* a run that ended with a report although the deep dive of a channel raised, a
\* later channel having been deep-dived without an exception
C3_Witness ==
    /\ pc = "done"
    /\ result = "report"
    /\ files.json
    /\ \E j, k \in 1..Len(dives) :
          /\ j < k
          /\ dives[j] \in caught
          /\ dives[k] \notin caught
          /\ ~full_analysis_report.channel_deep_dives[dives[k]].playlist_analysis.none

\* C4: for max_competitors >= 0 the report has at most 1 + max_competitors
\* entries in channel_deep_dives, the target channel is one of them and is
\* deep-dived first, and with max_competitors = 0 the target channel is the only
\* channel analyzed.
C4_DeepDiveBound ==
    /\ Len(dives) <= 1 + run.max_competitors
    /\ Cardinality(DOMAIN full_analysis_report.channel_deep_dives) <= 1 + run.max_competitors
    /\ (dives # <<>> => dives[1] = TargetId)
    /\ (result = "report" =>
            /\ TargetId \in DOMAIN full_analysis_report.channel_deep_dives
            /\ dives # <<>>)
    /\ (run.max_competitors = 0 =>
            /\ \A j \in 1..Len(dives) : dives[j] = TargetId
            /\ DOMAIN full_analysis_report.channel_deep_dives \subseteq {TargetId}
            /\ (result = "report" => dives = <<TargetId>>))

\* a report of a run with max_competitors = 1 whose search found more candidates
\* than that
C4_Witness ==
    /\ result = "report"
    /\ run.max_competitors = 1
    /\ Len(fsc.competitors) >= 2
    /\ dives = <<TargetId, "UC1">>
    /\ Cardinality(DOMAIN full_analysis_report.channel_deep_dives) = 2

\* C5: when Step 1 fails (the run ends with target_channel_id never set),
\* run_full_bi_analysis returns None, no channel is deep-dived, and no report
\* folder, JSON file or CSV file is written.
C5_Step1Failure ==
    (pc = "done" /\ full_analysis_report.target_channel_id = "None") =>
        /\ result = "None"
        /\ dives = <<>>
        /\ full_analysis_report.channel_deep_dives = <<>>
        /\ files = NoFiles

\* a run whose channels request of Step 1 failed
C5_Witness ==
    /\ pc = "done"
    /\ full_analysis_report.target_channel_id = "None"
    /\ last_failed = Request("channels", TargetId, 0, 1)
    /\ result = "None"

\* C6: run_full_bi_analysis terminates, returning a report or None, when every
\* API call returns and every listing ends; each channel is processed exactly
\* once, and no request that failed is issued again.
C6_Termination ==
    /\ <>(pc = "done")
    /\ [](pc = "done" <=> result \in {"report", "None"})
    /\ [](NoDuplicates(dives))
    /\ [](result = "report" => dives = ChannelIds(run.channels_to_analyze))
    /\ [](~retried)

\* a run that ended with a report after the deep dives of three channels, none
\* of which raised, and with videos for the CSV file
C6_Witness ==
    /\ pc = "done"
    /\ result = "report"
    /\ Len(dives) = 3
    /\ files.csv
    /\ caught = {}

----------------------------------------------------------------------------
(* scraping_1_2.py: channel-level analytics.                               *)

MaxChannelVideos == 3
MaxTopCount == 3

\* dict.get(key, default)
Get(d, key, default) == IF key \in DOMAIN d THEN d[key] ELSE default

\* recent = [v for v in videos if v.get('days_since_upload', 999) <= 90]
RecentVideos(videos) ==
    LET IsRecent(v) == Get(v, "days_since_upload", 999) <= 90
    IN  SelectSeq(videos, IsRecent)

\* older = [v for v in videos if v.get('days_since_upload', 0) > 90]
OlderVideos(videos) ==
    LET IsOlder(v) == Get(v, "days_since_upload", 0) > 90
    IN  SelectSeq(videos, IsOlder)

ViewCountsOf(videos) == [i \in 1..Len(videos) |-> videos[i].view_count]

\* a trend whose thresholds are reached by equality
analyze_recent_performance_trend_inclusive(videos) ==
    LET recent == RecentVideos(videos)
        older  == OlderVideos(videos)
    IN  IF recent = <<>> \/ older = <<>> THEN "insufficient_data"
        ELSE LET recent_avg_views == Mean(ViewCountsOf(recent))
                 older_avg_views  == Mean(ViewCountsOf(older))
             IN  IF RLe(RMul(older_avg_views, Rat(12, 10)), recent_avg_views) THEN "improving"
                 ELSE IF RLe(recent_avg_views, RMul(older_avg_views, Rat(8, 10)))
                      THEN "declining"
                      ELSE "stable"

analyze_recent_performance_trend(videos) ==
    LET recent == RecentVideos(videos)
        older  == OlderVideos(videos)
    IN  IF recent = <<>> \/ older = <<>> THEN "insufficient_data"
        ELSE LET recent_avg_views == Mean(ViewCountsOf(recent))
                 older_avg_views  == Mean(ViewCountsOf(older))
             IN  IF RLt(RMul(older_avg_views, Rat(12, 10)), recent_avg_views) THEN "improving"
                 ELSE IF RLt(recent_avg_views, RMul(older_avg_views, Rat(8, 10)))
                      THEN "declining"
                      ELSE "stable"

\* sorted(videos, key=lambda x: x.get(sort_key, 0), reverse=True): stable
RECURSIVE InsertByKeyDesc(_, _, _)
InsertByKeyDesc(sorted, x, sort_key) ==
    IF sorted = <<>> THEN <<x>>
    ELSE IF Get(Head(sorted), sort_key, 0) < Get(x, sort_key, 0)
         THEN <<x>> \o sorted
         ELSE <<Head(sorted)>> \o InsertByKeyDesc(Tail(sorted), x, sort_key)

RECURSIVE SortByKeyDescFrom(_, _, _)
SortByKeyDescFrom(done, rest, sort_key) ==
    IF rest = <<>> THEN done
    ELSE SortByKeyDescFrom(InsertByKeyDesc(done, Head(rest), sort_key), Tail(rest), sort_key)

\* the videos in the order of the list
SortByKeyListOrder(videos, sort_key) == videos

SortByKeyDesc(videos, sort_key) == SortByKeyDescFrom(<<>>, videos, sort_key)

get_top_performing_videos(videos, count, sort_key) ==
    LET sorted_videos == SortByKeyDesc(videos, sort_key)
        top == SlicePrefix(sorted_videos, count)
    IN  [i \in 1..Len(top) |->
            [title |-> top[i].title,
             video_id |-> top[i].video_id,
             view_count |-> top[i].view_count,
             sort_metric_value |-> Get(top[i], sort_key, 0)]]

\* the videos of perf_videos, by what they hold: every one has a title and a
\* positive view_count; days_since_upload and the metrics may be missing.  The
\* metrics are whole numbers here.
VideoKinds ==
    { [title |-> "a", view_count |-> 120, days_since_upload |-> 90,
       performance_score |-> 40, estimated_revenue |-> 2],
      [title |-> "b", view_count |-> 100, days_since_upload |-> 91,
       performance_score |-> 40, estimated_revenue |-> 5],
      [title |-> "c", view_count |-> 130, days_since_upload |-> 0,
       performance_score |-> 70],
      [title |-> "d", view_count |-> 70, days_since_upload |-> 30,
       performance_score |-> 10, estimated_revenue |-> 5],
      [title |-> "e", view_count |-> 80, days_since_upload |-> 90,
       estimated_revenue |-> 0],
      [title |-> "f", view_count |-> 100, days_since_upload |-> 400,
       performance_score |-> 90, estimated_revenue |-> 9],
      [title |-> "g", view_count |-> 100,
       performance_score |-> 40, estimated_revenue |-> 2] }

\* the i-th video of a list has video_id i
WithVideoId(v, i) ==
    [k \in DOMAIN v \cup {"video_id"} |-> IF k = "video_id" THEN i ELSE v[k]]

ChannelVideoLists ==
    UNION { { [i \in 1..n |-> WithVideoId(f[i], i)] : f \in [1..n -> VideoKinds] } :
            n \in 0..MaxChannelVideos }

SortKeys == {"performance_score", "estimated_revenue"}

ChannelInit ==
    /\ fn = "none"
    /\ args \in [videos : ChannelVideoLists, count : 0..MaxTopCount, sort_key : SortKeys]
    /\ ret = <<>>
    /\ OrchIdle
    /\ DashIdle

ApplyRecentPerformanceTrend ==
    /\ fn = "none"
    /\ fn' = "analyze_recent_performance_trend"
    /\ ret' = analyze_recent_performance_trend(args.videos)
    /\ UNCHANGED <<args, orchVars, dashVars>>

ApplyTopPerformingVideos ==
    /\ fn = "none"
    /\ fn' = "get_top_performing_videos"
    /\ ret' = get_top_performing_videos(args.videos, args.count, args.sort_key)
    /\ UNCHANGED <<args, orchVars, dashVars>>

ChannelNext == ApplyRecentPerformanceTrend \/ ApplyTopPerformingVideos

SpecChannel == ChannelInit /\ [][ChannelNext]_vars

\* the positions of the videos uploaded within the last 90 days, and of those
\* older than 90 days
RecentSet(videos) ==
    {i \in 1..Len(videos) : "days_since_upload" \in DOMAIN videos[i]
                            /\ videos[i].days_since_upload <= 90}
OlderSet(videos) ==
    {i \in 1..Len(videos) : "days_since_upload" \in DOMAIN videos[i]
                            /\ videos[i].days_since_upload > 90}
ViewsOf(videos, S) ==
    SeqSum([i \in 1..Len(videos) |-> IF i \in S THEN videos[i].view_count ELSE 0])
VideoIds(videos) == {videos[i].video_id : i \in 1..Len(videos)}

C12_TopVideos ==
    fn = "get_top_performing_videos" =>
        LET vs == args.videos
            Metric(i) == Get(vs[i], args.sort_key, 0)
            included == {ret[j].video_id : j \in 1..Len(ret)}
        IN  /\ Len(ret) = Min(args.count, Len(vs))
            /\ \A j \in 1..Len(ret) :
                  \E i \in 1..Len(vs) :
                      /\ ret[j].video_id = vs[i].video_id
                      /\ ret[j].title = vs[i].title
                      /\ ret[j].view_count = vs[i].view_count
                      /\ ret[j].sort_metric_value = Metric(i)
            /\ \A j, k \in 1..Len(ret) : ret[j].video_id = ret[k].video_id => j = k
            /\ \A j \in 1..(Len(ret) - 1) :
                  ret[j].sort_metric_value >= ret[j + 1].sort_metric_value
            /\ \A i \in 1..Len(vs) :
                  vs[i].video_id \notin included =>
                      \A j \in 1..Len(ret) : Metric(i) <= ret[j].sort_metric_value

\* two of three videos returned, the best one last in the input, the omitted one
\* without the metric
C12_Witness ==
    /\ fn = "get_top_performing_videos"
    /\ args.count = 2
    /\ Len(args.videos) = 3
    /\ args.sort_key = "estimated_revenue"
    /\ "estimated_revenue" \notin DOMAIN args.videos[1]
    /\ Len(ret) = 2
    /\ ret[1].video_id = 3
    /\ ret[1].sort_metric_value = 9
    /\ ret[2].video_id = 2

----------------------------------------------------------------------------
(* Channel URL resolution (scraping_1_1.py).  A URL is a sequence of text   *)
(* pieces; the pieces are chosen so that a marker occurs in the URL exactly *)
(* when it is one of its pieces.                                            *)

MaxUrlLen == 3

UrlPieces == {"channel/", "@", "/c/", "?", "UCa", "name"}

\* piece in url
Contains(url, piece) == \E i \in 1..Len(url) : url[i] = piece

\* url.split(piece)[-1]: the text after the last occurrence, or all of it
SplitLast(url, piece) ==
    IF Contains(url, piece)
    THEN LET i == CHOOSE j \in 1..Len(url) :
                      url[j] = piece /\ \A k \in (j+1)..Len(url) : url[k] # piece
         IN  SubSeq(url, i + 1, Len(url))
    ELSE url

\* url.split(piece)[0]: the text before the first occurrence, or all of it
SplitFirst(url, piece) ==
    IF Contains(url, piece)
    THEN LET i == CHOOSE j \in 1..Len(url) :
                      url[j] = piece /\ \A k \in 1..(j-1) : url[k] # piece
         IN  SubSeq(url, 1, i - 1)
    ELSE url

\* what youtube.search().list(...).execute() does: a response or an exception
SearchOutcomes ==
    {[raised |-> "", items |-> <<>>],
     [raised |-> "", items |-> <<[snippet |-> [channelId |-> <<"UCa">>]]>>],
     [raised |-> "HttpError", items |-> <<>>],
     [raised |-> "Error", items |-> <<>>]}

resolve_username_to_channel_id(username, search) ==
    IF search.raised = "HttpError" THEN Raised("ValueError")
    ELSE IF search.raised # "" THEN Raised(search.raised)
    ELSE IF search.items # <<>> THEN Returned(search.items[1].snippet.channelId)
    ELSE Raised("ValueError")

\* the module neither defines nor imports this name: the call is a NameError
resolve_custom_url_to_channel_id(custom_name) == Raised("NameError")

extract_channel_id_from_url(channel_url, search) ==
    IF Contains(channel_url, "channel/")
    THEN Returned(SplitFirst(SplitLast(channel_url, "channel/"), "?"))
    ELSE IF Contains(channel_url, "@")
    THEN resolve_username_to_channel_id(SplitFirst(SplitLast(channel_url, "@"), "?"), search)
    ELSE IF Contains(channel_url, "/c/")
    THEN resolve_custom_url_to_channel_id(SplitFirst(SplitLast(channel_url, "/c/"), "?"))
    ELSE Raised("ValueError")

Urls == UNION {[1..n -> UrlPieces] : n \in 0..MaxUrlLen}

UrlInit ==
    /\ fn = "none"
    /\ args \in [channel_url : Urls, search : SearchOutcomes]
    /\ ret = <<>>
    /\ OrchIdle
    /\ DashIdle

ApplyExtractChannelId ==
    /\ fn = "none"
    /\ fn' = "extract_channel_id_from_url"
    /\ ret' = extract_channel_id_from_url(args.channel_url, args.search)
    /\ UNCHANGED <<args, orchVars, dashVars>>

SpecUrl == UrlInit /\ [][ApplyExtractChannelId]_vars

(* C13: extract_channel_id_from_url resolves a URL of each of the three    *)
(* formats (channel/<id>, @username, /c/<custom name>) to a channel id or  *)
(* raises ValueError, raises ValueError for a URL of none of them, and     *)
(* never fails with another kind of error.  The code does not satisfy      *)
(* this: a /c/ URL ends in a NameError.                                    *)
C13_ChannelIdOrValueError ==
    fn = "extract_channel_id_from_url" =>
        /\ ret.raised \in {"", "ValueError"}
        /\ (\A m \in {"channel/", "@", "/c/"} : ~Contains(args.channel_url, m))
               => ret.raised = "ValueError"

----------------------------------------------------------------------------
(* The ratio primitives: the channel ratios of scraping_1_1.py, and the    *)
(* per-video and playlist ratios defined above, under one specification.   *)

\* Python's a / b on integers
TrueDiv(a, b) == IF b = 0 THEN Raised("ZeroDivisionError") ELSE Returned(Rat(a, b))

calculate_avg_views_per_video(total_views, video_count) ==
    TrueDiv(total_views, Max(video_count, 1))

calculate_subscriber_to_video_ratio(subscribers, video_count) ==
    TrueDiv(subscribers, Max(video_count, 1))

\* a content velocity that divides by the channel age as it is
calculate_content_velocity_unguarded(video_count, channel_age_days) ==
    TrueDiv(video_count, channel_age_days)

calculate_content_velocity(video_count, channel_age_days) ==
    TrueDiv(video_count, Max(channel_age_days, 1))

calculate_engagement_efficiency(subscribers, total_views) ==
    LET q == TrueDiv(subscribers, Max(total_views, 1))
    IN  IF q.raised # "" THEN q ELSE Returned(RMul(q.value, RInt(100)))

\* the calculated metrics of channel_info; statistics holds the integers read
\* from the response, age the result of calculate_channel_age
ChannelRatios(statistics, age) ==
    [average_views_per_video   |->
         calculate_avg_views_per_video(statistics.viewCount, statistics.videoCount),
     subscriber_to_video_ratio |->
         calculate_subscriber_to_video_ratio(statistics.subscriberCount,
                                             statistics.videoCount),
     content_velocity          |->
         calculate_content_velocity(statistics.videoCount, age),
     engagement_efficiency     |->
         calculate_engagement_efficiency(statistics.subscriberCount,
                                         statistics.viewCount)]

ChannelCounts == {0, 1, 7, 1000, 2000000}
ChannelAges == {0, 1, 365}

RatiosInit ==
    /\ fn = "none"
    /\ \/ args \in [item : [viewCount : ViewCounts, likeCount : LikeCounts,
                            commentCount : CommentCounts, categoryId : {"22"},
                            age_days : AgeDays],
                    duration_seconds : Durations,
                    country : {"US"}]
       \/ args \in [statistics : [subscriberCount : ChannelCounts,
                                  viewCount : ChannelCounts,
                                  videoCount : ChannelCounts],
                    channel_age_days : ChannelAges]
       \/ args \in [playlist_data : [video_ids : PlaylistIdLists],
                    all_videos_performance : PerformanceLists]
    /\ ret = <<>>
    /\ OrchIdle
    /\ DashIdle

ApplyVideoRatios ==
    /\ "item" \in DOMAIN args
    /\ ApplyCompleteBiMetrics

ApplyChannelRatios ==
    /\ fn = "none"
    /\ "statistics" \in DOMAIN args
    /\ fn' = "get_enhanced_channel_statistics"
    /\ ret' = ChannelRatios(args.statistics, args.channel_age_days)
    /\ UNCHANGED <<args, orchVars, dashVars>>

RatiosNext == ApplyVideoRatios \/ ApplyChannelRatios \/ ApplyPlaylistPerformanceMetrics

SpecRatios == RatiosInit /\ [][RatiosNext]_vars

\* a rational with a non-zero denominator that is not negative
FiniteNonNegative(x) == x.d > 0 /\ x.n >= 0

(* C14: no ratio divides by zero.  For non-negative counters, zero ones    *)
(* included (a video with 0 views, 0 duration or 0 days since upload, a    *)
(* channel with 0 videos, 0 views or age 0, a playlist with 0 total        *)
(* views), engagement_rate, like_ratio, comment_ratio, views_per_day,      *)
(* views_per_minute, average_views_per_video, subscriber_to_video_ratio,   *)
(* content_velocity, engagement_efficiency and playlist_engagement_rate    *)
(* are computed without raising and are finite and non-negative.           *)
C14_NoDivisionByZero ==
    /\ fn = "calculate_complete_bi_metrics" =>
           \A k \in {"engagement_rate", "like_ratio", "comment_ratio",
                     "views_per_day", "views_per_minute"} :
               FiniteNonNegative(ret[k])
    /\ fn = "get_enhanced_channel_statistics" =>
           \A k \in {"average_views_per_video", "subscriber_to_video_ratio",
                     "content_velocity", "engagement_efficiency"} :
               ret[k].raised = "" /\ FiniteNonNegative(ret[k].value)
    /\ (fn = "calculate_playlist_performance_metrics" /\ DOMAIN ret # {}) =>
           FiniteNonNegative(ret.playlist_engagement_rate)

\* a channel with no videos, no views and age 0 whose ratios were computed
C14_Witness ==
    /\ fn = "get_enhanced_channel_statistics"
    /\ args.statistics.videoCount = 0
    /\ args.statistics.viewCount = 0
    /\ args.channel_age_days = 0
    /\ ret.content_velocity = Returned(RInt(0))

----------------------------------------------------------------------------
(* The dashboard (main_dashboard.py, pages/): one browser session.  Each   *)
(* run of a page script is one step; st.session_state lives across them.   *)

\* an entry of channel_deep_dives: as main.py records it (video_analysis is None
\* when the deep dive raised), or a dict without these keys
DiveEntries ==
    {[channel_data |-> [channel_title |-> "title"], video_analysis |-> va] :
         va \in {None, Analysis(TRUE), Analysis(FALSE)}} \cup {<<>>}

ReportChannelIds == {"", "UC_T", "UC_C"}

\* what json.load can give for full_analysis_report.json: {} or a dict with or
\* without target_channel_id and competitor_overview
Reports ==
    {<<>>} \cup
    UNION { UNION { {
        LET r0 == [channel_deep_dives |-> dd]
            r1 == IF tid = "absent" THEN r0 ELSE DictSet(r0, "target_channel_id", tid)
        IN  IF overview THEN DictSet(r1, "competitor_overview", [competitors |-> <<>>])
            ELSE r1
        : tid \in {"absent", "", "UC_T"}, overview \in BOOLEAN }
        : dd \in [S -> DiveEntries] } : S \in SUBSET ReportChannelIds }

\* load_data(): the parsed file, None when the file is missing, or the exception of
\* a file that cannot be read or parsed
LoadOutcomes ==
    {Returned(r) : r \in Reports} \cup {Returned(None), Raised("JSONDecodeError")}

\* pd.DataFrame(videos), kept as whether it has rows
DataFrame(videos) == [empty |-> ~videos]

\* main_dashboard.py, top to bottom; an exception ends the script where it is raised
MainPage(ss, load) ==
    IF "analysis_data" \notin DOMAIN ss /\ load.raised # ""
    THEN [session_state |-> ss, shown |-> "exception"]
    ELSE
    LET ss1  == IF "analysis_data" \in DOMAIN ss THEN ss
                ELSE DictSet(ss, "analysis_data", load.value)
        data == ss1.analysis_data
    IN  IF data = None \/ DOMAIN data = {}
        THEN [session_state |-> ss1, shown |-> "landing"]
        ELSE
        \* None and '' are both falsy: '' stands for a missing target_channel_id
        LET target_id  == Get(data, "target_channel_id", "")
            deep_dives == Get(data, "channel_deep_dives", <<>>)
        IN  IF target_id # "" /\ target_id \in DOMAIN deep_dives
            THEN LET target_deep_dive == deep_dives[target_id]
                     ss2 == DictSet(ss1, "target_deep_dive", target_deep_dive)
                     ss3 == DictSet(ss2, "target_channel_data",
                                    Get(target_deep_dive, "channel_data", <<>>))
                     target_video_analysis ==
                         Get(target_deep_dive, "video_analysis", <<>>)
                     ss4 == DictSet(ss3, "target_video_analysis", target_video_analysis)
                 IN  IF target_video_analysis = None
                     THEN \* None has no .get: AttributeError at line 44
                          [session_state |-> ss4, shown |-> "exception"]
                     ELSE LET ss5 == DictSet(ss4, "videos_df",
                                       DataFrame(Get(target_video_analysis, "videos", FALSE)))
                              ss6 == DictSet(ss5, "competitor_overview",
                                       Get(data, "competitor_overview", <<>>))
                              ss7 == DictSet(ss6, "all_deep_dives", deep_dives)
                          IN  [session_state |-> ss7, shown |-> "landing"]
            ELSE [session_state |-> ss1, shown |-> "landing"]

SubPages == {"01_Executive_Sumary", "02_Content_Portfolio_Deep_Dive",
             "03_Competitive_Intelligence"}

\* the st.session_state attributes a sub-page reads first, in order
PageReads(p) ==
    CASE p = "01_Executive_Sumary" ->
             <<"target_channel_data", "target_video_analysis", "competitor_overview">>
      [] p = "02_Content_Portfolio_Deep_Dive" -> <<"videos_df">>
      [] p = "03_Competitive_Intelligence" ->
             <<"target_channel_data", "competitor_overview", "all_deep_dives">>

\* a sub-page guard that tests for the loaded file instead
DataLoadedAnyFile(ss) == "analysis_data" \in DOMAIN ss

\* 'target_channel_data' in st.session_state
DataLoaded(ss) == "target_channel_data" \in DOMAIN ss

\* a sub-page script: the error, or the else branch, where reading an attribute
\* that is not set raises AttributeError
SubPage(p, ss) ==
    IF ~DataLoaded(ss)
    THEN [name |-> p, shown |-> "error", read |-> {}]
    ELSE LET ks == PageReads(p)
             n  == Cardinality({i \in 1..Len(ks) : \A j \in 1..i : ks[j] \in DOMAIN ss})
             ok == /\ n = Len(ks)
                   /\ ~(p = "01_Executive_Sumary" /\ ss.target_video_analysis = None)
         IN  [name |-> p, shown |-> IF ok THEN "content" ELSE "exception",
              read |-> {ks[i] : i \in 1..n}]

DashInit ==
    /\ PureIdle
    /\ OrchIdle
    /\ DashIdle

RunMainPage ==
    \* load_data() is called only while analysis_data is not set
    /\ \E load \in IF "analysis_data" \in DOMAIN session_state
                    THEN {Returned(None)} ELSE LoadOutcomes :
           LET r == MainPage(session_state, load)
           IN  /\ session_state' = r.session_state
               /\ rendered' = [name |-> "main_dashboard", shown |-> r.shown, read |-> {}]
    /\ UNCHANGED <<pureVars, orchVars>>

RunSubPage ==
    /\ \E p \in SubPages : rendered' = SubPage(p, session_state)
    /\ UNCHANGED <<pureVars, orchVars, session_state>>

DashNext == RunMainPage \/ RunSubPage

SpecDashboard == DashInit /\ [][DashNext]_vars

\* the main page has loaded a report whose target_channel_id has an entry in
\* channel_deep_dives
TargetReportLoaded ==
    /\ "analysis_data" \in DOMAIN session_state
    /\ LET data == session_state.analysis_data
       IN  /\ data # None
           /\ "target_channel_id" \in DOMAIN data
           /\ "channel_deep_dives" \in DOMAIN data
           /\ data.target_channel_id \in DOMAIN data.channel_deep_dives

(* C15: a sub-page (Executive Summary, Content Portfolio, Competitive      *)
(* Intelligence) goes on to its report content only if the main page has   *)
(* loaded a report whose target_channel_id has an entry in                 *)
(* channel_deep_dives; in every other session state it shows the 'Data     *)
(* not loaded' error and reads no report data.                             *)
C15_SubPageGuard ==
    (DOMAIN rendered # {} /\ rendered.name \in SubPages) =>
        /\ rendered.shown # "error" => TargetReportLoaded
        /\ ~TargetReportLoaded => (rendered.shown = "error" /\ rendered.read = {})

\* the Competitive Intelligence page shows its content after a report was loaded
C15_Witness ==
    /\ DOMAIN rendered # {}
    /\ rendered.name = "03_Competitive_Intelligence"
    /\ rendered.shown = "content"
    /\ rendered.read = {"target_channel_data", "competitor_overview", "all_deep_dives"}
    /\ TargetReportLoaded

----------------------------------------------------------------------------
(* pages/02_Content_Portfolio_Deep_Dive.py: calculate_new_performance_scores. *)
(* A DataFrame is its set of column labels and its rows.                    *)

MaxTableRows == 3

ScoreInputColumns == {"duration_seconds", "view_count", "like_count", "comment_count"}

TableRows ==
    {[duration_seconds |-> 0,   view_count |-> 0,     like_count |-> 0, comment_count |-> 0],
     [duration_seconds |-> 60,  view_count |-> 100,   like_count |-> 5, comment_count |-> 1],
     [duration_seconds |-> 600, view_count |-> 50000, like_count |-> 0, comment_count |-> 2]}

VideoTables ==
    {[columns |-> c, rows |-> r] :
         c \in SUBSET ScoreInputColumns,
         r \in UNION {[1..n -> TableRows] : n \in 0..MaxTableRows}}

\* df.empty: an axis of length 0
Empty(df) == df.columns = {} \/ df.rows = <<>>

\* pd.DataFrame()
EmptyDataFrame == [columns |-> {}, rows |-> <<>>]

\* The statements of lines 23 to 47 read the four input columns in this order
\* (KeyError for a missing one) and add columns; none of them returns.  Line 48
\* then reads comment_density, a name bound neither in the function nor in the
\* module: NameError.
calculate_new_performance_scores(df) ==
    IF Empty(df) THEN Returned([df |-> EmptyDataFrame, benchmarks |-> <<>>])
    ELSE IF ScoreInputColumns \ df.columns # {} THEN Raised("KeyError")
    ELSE Raised("NameError")

ScoresInit ==
    /\ fn = "none"
    /\ args \in [df : VideoTables]
    /\ ret = <<>>
    /\ OrchIdle
    /\ DashIdle

ApplyNewPerformanceScores ==
    /\ fn = "none"
    /\ fn' = "calculate_new_performance_scores"
    /\ ret' = calculate_new_performance_scores(args.df)
    /\ UNCHANGED <<args, orchVars, dashVars>>

SpecScores == ScoresInit /\ [][ApplyNewPerformanceScores]_vars

(* C16: for a non-empty video table (with the input columns)               *)
(* calculate_new_performance_scores returns the table extended with        *)
(* view_score, engagement_quality_score, social_amplification_score and    *)
(* content_efficiency_score together with the four p95 benchmarks; for an  *)
(* empty table it returns an empty table and an empty benchmark dict.      *)
(* The code does not satisfy this: on a non-empty table it raises          *)
(* NameError.                                                              *)
C16_ScoresReturned ==
    fn = "calculate_new_performance_scores" =>
        IF Empty(args.df)
        THEN ret = Returned([df |-> EmptyDataFrame, benchmarks |-> <<>>])
        ELSE (ScoreInputColumns \subseteq args.df.columns) =>
                 /\ ret.raised = ""
                 /\ {"view_score", "engagement_quality_score",
                     "social_amplification_score", "content_efficiency_score"}
                        \subseteq ret.value.df.columns
                 /\ DOMAIN ret.value.benchmarks =
                        {"p95_views", "p95_engagement", "p95_comment_density",
                         "p95_efficiency"}

----------------------------------------------------------------------------
(* The competitor phase of run_full_bi_analysis.                           *)

(* C17: when a competitor search request raises an HttpError,              *)
(* find_similar_channels returns [] whatever it had collected,             *)
(* analyze_competitors returns the empty competitive analysis, and the run *)
(* goes on: it deep-dives the target channel alone and returns its report. *)
C17_SearchHttpError ==
    /\ [](fsc.raised = "HttpError" =>
            /\ result # "None"
            /\ full_analysis_report.competitor_overview =
                   create_empty_competitive_analysis(run.target_channel_data)
            /\ full_analysis_report.competitor_overview.competitors = <<>>
            /\ run.channels_to_analyze = <<run.target_channel_data>>
            /\ \A j \in 1..Len(dives) : dives[j] = TargetId
            /\ DOMAIN full_analysis_report.channel_deep_dives \subseteq {TargetId})
    /\ (fsc.raised = "HttpError") ~>
           (pc = "done" /\ result = "report" /\ dives = <<TargetId>>)

\* the second search request raised HttpError after the first had collected
\* candidates, and the run ended with the deep dive of the target alone
C17_Witness ==
    /\ fsc.raised = "HttpError"
    /\ fsc.term = 2
    /\ Len(fsc.competitors) >= 2
    /\ pc = "done"
    /\ result = "report"
    /\ dives = <<TargetId>>

\* a step that leaves the target's entry of channel_deep_dives, if there is one,
\* as it is
TargetEntryKept ==
    TargetId \in DOMAIN full_analysis_report.channel_deep_dives =>
        (/\ TargetId \in DOMAIN full_analysis_report.channel_deep_dives'
         /\ full_analysis_report.channel_deep_dives'[TargetId] =
                full_analysis_report.channel_deep_dives[TargetId])

(* C18: the candidate list of find_similar_channels never holds the        *)
(* target's id nor an id twice, whatever the (at most 3) searches return;  *)
(* so every channel after the first of channels_to_analyze is another      *)
(* channel, and the target's entry of channel_deep_dives, once written, is *)
(* never overwritten.                                                      *)
C18_CandidatesDistinct ==
    /\ [](LET ids == ChannelIds(fsc.competitors)
          IN  /\ \A j \in 1..Len(ids) : ids[j] # full_analysis_report.target_channel_id
              /\ NoDuplicates(ids)
              /\ fsc.term - 1 <= 3)
    /\ [](\A j \in 2..Len(run.channels_to_analyze) :
              run.channels_to_analyze[j].channel_id # full_analysis_report.target_channel_id)
    /\ [][TargetEntryKept]_vars

\* the searches returned the target's id and repeated ids, and a competitor was
\* deep-dived after the target
C18_Witness ==
    /\ fsc.unique_channel_ids = {TargetId, "UC1", "UC2", "UC3"}
    /\ Len(fsc.competitors) = 3
    /\ Len(dives) >= 2
    /\ dives[1] = TargetId
    /\ DOMAIN full_analysis_report.channel_deep_dives = {TargetId, dives[2]}

\* the positions of the shortlist that collect_competitor_data has kept
KeptPositions == (1..(ccd.idx - 1)) \ ccd.skipped

(* C19: collect_competitor_data returns an order-preserving subsequence of *)
(* the ranked shortlist: a competitor whose lookup fails or returns        *)
(* nothing is skipped and the loop goes on to the end of the list, every   *)
(* other competitor appears exactly once, in rank order, and its profile   *)
(* carries the relevance_score ranking gave it.                            *)
C19_ProfilesSubsequence ==
    /\ ccd.skipped \subseteq 1..(ccd.idx - 1)
    /\ Len(ccd.competitor_profiles) = Cardinality(KeptPositions)
    /\ \A k \in 1..Len(ccd.competitor_profiles) :
          LET i == CHOOSE i \in KeptPositions :
                       Cardinality({j \in KeptPositions : j <= i}) = k
              candidate == CHOOSE c \in SeqToSet(fsc.competitors) :
                               c.channel_id = ccd.competitors[i].channel_id
          IN  /\ ccd.competitor_profiles[k].channel_id = ccd.competitors[i].channel_id
              /\ ccd.competitor_profiles[k].relevance_score =
                     ccd.competitors[i].relevance_score
              /\ ccd.competitor_profiles[k].relevance_score =
                     calculate_competitor_relevance_score(candidate,
                                                          run.target_channel_data)
    /\ (pc \notin {"step1", "find_similar_channels", "collect_competitor_data"} =>
            ccd.idx = Len(ccd.competitors) + (IF ccd.competitors = <<>> THEN 0 ELSE 1))

\* the lookup of the first competitor of the shortlist failed and the second
\* competitor's profile was collected, with a relevance score that is not 0
C19_Witness ==
    /\ ccd.skipped = {1}
    /\ ccd.idx = 3
    /\ Len(ccd.competitor_profiles) = 1
    /\ ccd.competitor_profiles[1].channel_id = ccd.competitors[2].channel_id
    /\ RLt(RInt(0), ccd.competitor_profiles[1].relevance_score)

----------------------------------------------------------------------------
(* scraping_1_2.py: the upload listing and the batches of the video        *)
(* details requests.                                                       *)

MaxListPages == 3

\* the number of items of a page of the uploads playlist (maxResults=50)
PageItemCounts == {0, 1, PageSize - 1, PageSize}

\* the pages playlistItems().list returns until one has no nextPageToken
PageLists == UNION {[1..n -> PageItemCounts] : n \in 1..MaxListPages}

\* range(start, stop, step), for step > 0
Range(start, stop, step) ==
    IF stop <= start THEN <<>>
    ELSE [k \in 1..((stop - start + step - 1) \div step) |-> start + (k - 1) * step]

\* s[i:j+1]
SliceInclusive(s, i, j) == SubSeq(s, i + 1, Min(j + 1, Len(s)))

\* s[i:j], for 0 <= i <= j
Slice(s, i, j) == SubSeq(s, i + 1, Min(j, Len(s)))

\* how the uploads playlist lists its items
ListingOrders == {"newest_first", "oldest_first", "same_day", "alternating"}

\* item['snippet']['publishedAt'] of the k-th listed item, as a day number
PublishedAt(order, k) ==
    CASE order = "newest_first" -> 0 - (k \div PageSize)
      [] order = "oldest_first" -> k \div PageSize
      [] order = "same_day"     -> 0
      [] OTHER                  -> k % 2

\* the stable descending sort: the videos of the newest day in their order, then the rest
RECURSIVE SortByPublishedAtDescFrom(_, _)
SortByPublishedAtDescFrom(videos, days) ==
    IF days = {} THEN <<>>
    ELSE LET newest == CHOOSE d \in days : \A o \in days : o <= d
         IN  SelectSeq(videos, LAMBDA v : v.published_at = newest)
                 \o SortByPublishedAtDescFrom(videos, days \ {newest})

\* all_videos.sort(key=lambda x: x['published_at'], reverse=True)
SortByPublishedAtDesc(videos) ==
    SortByPublishedAtDescFrom(videos, {videos[k].published_at : k \in DOMAIN videos})

\* get_all_videos when no request fails; the video ids number the items in list order
get_all_videos(pages, order) ==
    LET n == SeqSum(pages)
        all_videos == [k \in 1..n |->
                          [video_id |-> k, published_at |-> PublishedAt(order, k)]]
    IN  [videos   |-> SortByPublishedAtDesc(all_videos),
         metadata |-> [total_videos_collected |-> n, list_api_calls |-> Len(pages)]]

\* the ids videos().list may return no item for
UnavailableIds == {1, 2, PageSize + 1}

\* item['statistics']['viewCount'] of the item of a video
ViewCount(video_id) == 10 * video_id

\* the merge that keeps every listed video
MergeDetailsKeepAll(videos, all_video_details) ==
    [k \in 1..Len(videos) |->
        [video_id     |-> videos[k].video_id,
         published_at |-> videos[k].published_at,
         view_count   |-> ViewCount(videos[k].video_id)]]

\* enhanced_videos: {**video, **all_video_details[video_id]} for the videos with details
MergeDetails(videos, all_video_details) ==
    LET with_details == SelectSeq(videos, LAMBDA v : v.video_id \in DOMAIN all_video_details)
    IN  [k \in 1..Len(with_details) |->
            [video_id     |-> all_video_details[with_details[k].video_id].video_id,
             published_at |-> with_details[k].published_at,
             view_count   |-> all_video_details[with_details[k].video_id].view_count]]

\* get_and_process_video_details; fail_at is the batch whose request raises (0: none),
\* unavailable the ids the details responses hold no item for.
\* requests lists the id lists of the requests issued.
get_and_process_video_details(videos_data, fail_at, unavailable) ==
    LET videos    == videos_data.videos
        video_ids == [k \in 1..Len(videos) |-> videos[k].video_id]
        starts    == Range(0, Len(video_ids), PageSize)
        batch_ids == [b \in 1..Len(starts) |->
                         Slice(video_ids, starts[b], starts[b] + PageSize)]
        api_calls_made == Len(batch_ids)
        items     == {video_ids[k] : k \in 1..Len(video_ids)} \ unavailable
        all_video_details ==
            [id \in items |-> [video_id |-> id, view_count |-> ViewCount(id)]]
        enhanced_videos == MergeDetails(videos, all_video_details)
    IN  IF fail_at \in 1..Len(batch_ids)
        THEN [raised |-> "Exception", requests |-> SubSeq(batch_ids, 1, fail_at),
              videos |-> videos, metadata |-> videos_data.metadata]
        ELSE [raised |-> "", requests |-> batch_ids,
              videos |-> enhanced_videos,
              metadata |->
                  [total_videos_collected |-> videos_data.metadata.total_videos_collected,
                   list_api_calls    |-> videos_data.metadata.list_api_calls,
                   details_api_calls |-> api_calls_made,
                   total_api_calls   |->
                       videos_data.metadata.list_api_calls + api_calls_made,
                   performance_data_collected |-> Len(enhanced_videos)]]

DetailsInit ==
    /\ fn = "none"
    /\ args \in [pages : PageLists, fail_at : 0..MaxListPages,
                 order : {"newest_first"}, unavailable : {{}}]
    /\ ret = <<>>
    /\ OrchIdle
    /\ DashIdle

\* the listings and the responses the enriched list depends on
EnrichInit ==
    /\ fn = "none"
    /\ args \in [pages : PageLists, fail_at : {0, 1},
                 order : ListingOrders, unavailable : SUBSET UnavailableIds]
    /\ ret = <<>>
    /\ OrchIdle
    /\ DashIdle

ApplyVideoDetails ==
    /\ fn = "none"
    /\ fn' = "get_and_process_video_details"
    /\ ret' = get_and_process_video_details(get_all_videos(args.pages, args.order),
                                            args.fail_at, args.unavailable)
    /\ UNCHANGED <<args, orchVars, dashVars>>

SpecDetails == DetailsInit /\ [][ApplyVideoDetails]_vars

SpecEnrich == EnrichInit /\ [][ApplyVideoDetails]_vars

\* how many times an id occurs in the requests
TimesRequested(requests, id) ==
    Cardinality({<<b, k>> \in (1..Len(requests)) \X (1..PageSize + 1) :
                     k <= Len(requests[b]) /\ requests[b][k] = id})

(* C20: in get_and_process_video_details every listed video id is          *)
(* requested in exactly one batch of at most 50 ids, the number of detail  *)
(* requests is ceil(n/50) for n videos, and metadata.total_api_calls is    *)
(* list_api_calls, the number of upload-list pages fetched, plus           *)
(* details_api_calls.  (When a request raises, the ids of the batches not  *)
(* yet requested are requested in no batch, and no metadata is returned.)  *)
C20_DetailBatches ==
    fn = "get_and_process_video_details" =>
        LET n == SeqSum(args.pages)
        IN  /\ \A b \in 1..Len(ret.requests) : Len(ret.requests[b]) \in 1..50
            /\ \A id \in 1..n : TimesRequested(ret.requests, id) <= 1
            /\ ret.raised = "" =>
                   /\ \A id \in 1..n : TimesRequested(ret.requests, id) = 1
                   /\ Len(ret.requests) = (n + 49) \div 50
                   /\ ret.metadata.details_api_calls = Len(ret.requests)
                   /\ ret.metadata.list_api_calls = Len(args.pages)
                   /\ ret.metadata.total_api_calls =
                          ret.metadata.list_api_calls + ret.metadata.details_api_calls

\* 101 videos listed in three pages: three detail requests, of 50, 50 and 1 ids
C20_Witness ==
    /\ fn = "get_and_process_video_details"
    /\ args.pages = <<50, 50, 1>>
    /\ ret.raised = ""
    /\ Len(ret.requests) = 3
    /\ Len(ret.requests[3]) = 1
    /\ ret.metadata.total_api_calls = 6


(* C21: the enriched video list get_and_process_video_details returns is   *)
(* an order-preserving sublist of the listed uploads, newest first (and in *)
(* list order within a day): it holds exactly the videos the details       *)
(* responses returned an item for, each once and with its details, and     *)
(* metadata.performance_data_collected is its length.                      *)
C21_EnrichedSublist ==
    fn = "get_and_process_video_details" /\ ret.raised = "" =>
        LET n == SeqSum(args.pages)
            enriched == ret.videos
        IN  /\ {enriched[k].video_id : k \in 1..Len(enriched)} = (1..n) \ args.unavailable
            /\ Len(enriched) = Cardinality((1..n) \ args.unavailable)
            /\ \A k \in 1..Len(enriched) :
                   /\ enriched[k].published_at = PublishedAt(args.order, enriched[k].video_id)
                   /\ enriched[k].view_count = ViewCount(enriched[k].video_id)
            /\ \A k \in 1..(Len(enriched) - 1) :
                   \/ enriched[k].published_at > enriched[k + 1].published_at
                   \/ /\ enriched[k].published_at = enriched[k + 1].published_at
                      /\ enriched[k].video_id < enriched[k + 1].video_id
            /\ ret.metadata.performance_data_collected = Len(enriched)

\* 51 uploads listed oldest first in two requests, the 1st and the 51st without details
C21_Witness ==
    /\ fn = "get_and_process_video_details"
    /\ args.pages = <<50, 1>>
    /\ args.order = "oldest_first"
    /\ args.unavailable = {1, PageSize + 1}
    /\ ret.raised = ""
    /\ Len(ret.videos) = 49
    /\ ret.videos[1].video_id = 50
    /\ ret.videos[2].video_id = 2
    /\ ret.metadata.performance_data_collected = 49


----------------------------------------------------------------------------
(* Playlist aggregation.                                                   *)

\* the positions of a playlist whose video is in the performance data
PresentPositions(video_ids, all_videos_performance) ==
    {k \in 1..Len(video_ids) :
        \E i \in 1..Len(all_videos_performance) :
            all_videos_performance[i].video_id = video_ids[k]}

\* the view count the performance data holds for the video at a present position
ViewsAt(video_ids, all_videos_performance, k) ==
    LET i == CHOOSE j \in 1..Len(all_videos_performance) :
                 all_videos_performance[j].video_id = video_ids[k]
    IN  all_videos_performance[i].view_count

(* C22: calculate_playlist_performance_metrics aggregates only the         *)
(* playlist's videos that are in the channel's performance data:           *)
(* total_playlist_views is the sum of their view counts,                   *)
(* playlist_videos_analyzed is their number, at most the number of ids of  *)
(* the playlist, and when none is present it returns the empty dict, so    *)
(* that get_playlist_details leaves the playlist's default metrics.        *)
C22_PlaylistAggregation ==
    (fn \in {"calculate_playlist_performance_metrics", "get_playlist_details"}) =>
        LET video_ids == args.playlist_data.video_ids
            perf      == args.all_videos_performance
            present   == PresentPositions(video_ids, perf)
            views     == SeqSum([k \in 1..Len(video_ids) |->
                                    IF k \in present THEN ViewsAt(video_ids, perf, k) ELSE 0])
        IN  /\ (fn = "calculate_playlist_performance_metrics" /\ present = {}) =>
                   ret = <<>>
            /\ (fn = "calculate_playlist_performance_metrics" /\ present # {}) =>
                   /\ ret.total_playlist_views = views
                   /\ ret.playlist_videos_analyzed = Cardinality(present)
                   /\ ret.playlist_videos_analyzed <= Len(video_ids)
            /\ (fn = "get_playlist_details" /\ present = {}) =>
                   /\ ret.video_ids = video_ids
                   /\ \A key \in DOMAIN default_performance_metrics :
                          ret[key] = default_performance_metrics[key]
                   /\ "playlist_videos_analyzed" \notin DOMAIN ret
            /\ (fn = "get_playlist_details" /\ present # {}) =>
                   /\ ret.total_playlist_views = views
                   /\ ret.playlist_videos_analyzed = Cardinality(present)

\* a playlist of three ids, one of a video that is not in the performance data
C22_Witness ==
    /\ fn = "calculate_playlist_performance_metrics"
    /\ args.playlist_data.video_ids = <<2, 0, 1>>
    /\ Len(args.all_videos_performance) = 2
    /\ ret.playlist_videos_analyzed = 2
    /\ ret.total_playlist_views = 50010

====
